---- MODULE Spec2Model ----
(***************************************************************************)
(* Listing matching and evaluation engine of dwellr.                       *)
(*                                                                         *)
(* Money is an integer number of nano-dollars (1e-9 USD): 0.10 USD is      *)
(* 100000000.  A datetime is an integer number of half days, so that two   *)
(* datetimes of one calendar day can differ.  Prices are whole dollars,    *)
(* total costs are integer cents (the code rounds them to 2 decimals).     *)
(* A column that is NULL / None holds the value None.                      *)
(***************************************************************************)
EXTENDS Integers, Sequences, FiniteSets, TLC

None == 0 - 1

\* ---------------------------------------------------------------- datetimes
\* datetime(day) at midnight and at noon
Date(day) == 2 * day
Noon(day) == 2 * day + 1
\* timedelta(days=n)
Timedelta(days) == 2 * days
\* timedelta.days: whole days of a difference of two datetimes
Days(delta) == delta \div 2

\* ---------------------------------------------------------------- bounds
MaxListings == 2
MaxRuns == 2
MaxPrefVersion == 2
MaxRate == 5
MaxCatalogue == 6
MaxDuration == 8
MaxUpdates == 3
MaxTasks == 2

\* ------------------------------------------------------ program constants
MIN_CREDIT_THRESHOLD == 100000000
MAX_RETRIES == 2
DEFAULT_MAX_EVALUATIONS == 50
EST_INPUT_TOKENS == 800
EST_OUTPUT_TOKENS == 100
INPUT_TOKEN_COST == 150
OUTPUT_TOKEN_COST == 600

Users == {"u1"}
UserIds == Users \cup {"nobody"}
Tasks == {"t1", "t2"}
Listings == 1..MaxListings

\* what the external Evaluator can answer for one call
EvaluationResults ==
    { [score |-> 4, cost_usd |-> 0], [score |-> 9, cost_usd |-> 120000000] }
InitialCredits == {50000000, 100000000, 200000000}

\* exception classes the environment raises
Raisable == {"ConnectionError", "SQLAlchemyError", "ValueError", "RuntimeError"}
AutoretryFor == {"ConnectionError", "TimeoutError", "SQLAlchemyError", "Retry"}
PermanentErrors == {"ValueError", "KeyError", "AttributeError"}

\* ------------------------------------------------------------- listings
\* The rows ingestion can have put into the listing store; ids follow
\* ingestion order (a larger id was created later).
Listing(l) ==
    CASE l % 8 = 1 -> [id |-> l, price |-> 150, price_period |-> "day",
                       start_date |-> Date(10), end_date |-> Date(50), listing_type |-> "sublet"]
      [] l % 8 = 2 -> [id |-> l, price |-> 1050, price_period |-> "week",
                       start_date |-> Date(6), end_date |-> Date(50), listing_type |-> "sublet"]
      [] l % 8 = 3 -> [id |-> l, price |-> 200, price_period |-> "day",
                       start_date |-> Date(10), end_date |-> Date(50), listing_type |-> "rental"]
      [] l % 8 = 4 -> [id |-> l, price |-> None, price_period |-> "None",
                       start_date |-> Date(10), end_date |-> Date(50), listing_type |-> "sublet"]
      [] l % 8 = 5 -> [id |-> l, price |-> 4500, price_period |-> "month",
                       start_date |-> Date(10), end_date |-> Date(50), listing_type |-> "sublet"]
      [] l % 8 = 6 -> [id |-> l, price |-> 700, price_period |-> "week",
                       start_date |-> Date(6), end_date |-> Date(20), listing_type |-> "sublet"]
      [] l % 8 = 7 -> [id |-> l, price |-> 100, price_period |-> "day",
                       start_date |-> None, end_date |-> None, listing_type |-> "sublet"]
      [] OTHER     -> [id |-> l, price |-> 200, price_period |-> "day",
                       start_date |-> Date(12), end_date |-> Date(50), listing_type |-> "sublet"]

\* ------------------------------------------------------ price normalizer
\* round(n / k, 2 decimals) of an amount given in cents, n >= 0, k > 0
RoundDiv(n, k) == (2 * n + k) \div (2 * k)

\* mutant: a month of 31 days
UserTotalCostMonth31(period, price, duration_days) ==
    CASE period = "day"   -> price * duration_days * 100
      [] period = "week"  -> RoundDiv(price * duration_days * 100, 7)
      [] period = "month" -> RoundDiv(price * duration_days * 100, 31)
      [] OTHER            -> price * duration_days * 100

\* User._calculate_total_cost, in cents
UserTotalCost(period, price, duration_days) ==
    CASE period = "day"   -> price * duration_days * 100
      [] period = "week"  -> RoundDiv(price * duration_days * 100, 7)
      [] period = "month" -> RoundDiv(price * duration_days * 100, 30)
      [] OTHER            -> price * duration_days * 100

\* The two methods below return floats.  Their results are kept exact here,
\* as a whole number of 1/CostUnit dollars: dividing by 7 and by 30 loses
\* nothing in that unit.
CostUnit == 7 * 30

\* mutant: whole weeks only (duration_days // 7)
CalculateTotalCostForDurationWholeWeeks(price, price_period, duration_days) ==
    IF price = None \/ price = 0 \/ price_period = "None" THEN 0
    ELSE CASE price_period = "day"   -> price * duration_days * CostUnit
           [] price_period = "week"  -> price * (duration_days \div 7) * CostUnit
           [] price_period = "month" -> (price * duration_days * CostUnit) \div 30
           [] OTHER                  -> price * duration_days * CostUnit

\* mutant: an unset price is not caught and enters the arithmetic
CalculateTotalCostForDurationNoPriceGuard(price, price_period, duration_days) ==
    IF price_period = "None" THEN 0
    ELSE CASE price_period = "day"   -> price * duration_days * CostUnit
           [] price_period = "week"  -> (price * duration_days * CostUnit) \div 7
           [] price_period = "month" -> (price * duration_days * CostUnit) \div 30
           [] OTHER                  -> price * duration_days * CostUnit

\* Listing.calculate_total_cost_for_duration
CalculateTotalCostForDuration(price, price_period, duration_days) ==
    IF price = None \/ price = 0 \/ price_period = "None" THEN 0
    ELSE CASE price_period = "day"   -> price * duration_days * CostUnit
           [] price_period = "week"  -> (price * duration_days * CostUnit) \div 7
           [] price_period = "month" -> (price * duration_days * CostUnit) \div 30
           [] OTHER                  -> price * duration_days * CostUnit

\* User._calculate_total_cost
CalculateTotalCost(price_period, price, duration_days) ==
    CASE price_period = "day"   -> price * duration_days * CostUnit
      [] price_period = "week"  -> (price * duration_days * CostUnit) \div 7
      [] price_period = "month" -> (price * duration_days * CostUnit) \div 30
      [] OTHER                  -> price * duration_days * CostUnit

\* User.get_stay_duration_days
StayDuration(u) ==
    IF u.preferred_start_date # None /\ u.preferred_end_date # None
    THEN Days(u.preferred_end_date - u.preferred_start_date)
    ELSE None

\* the storage-layer CASE expression of _get_candidate_listings, in cents;
\* a NULL price makes the whole expression NULL
ListingTotalCost(l, stay) ==
    IF l.price = None THEN None
    ELSE CASE l.price_period = "day"   -> l.price * stay * 100
           [] l.price_period = "week"  -> RoundDiv(l.price * stay * 100, 7)
           [] l.price_period = "month" -> RoundDiv(l.price * stay * 100, 30)
           [] OTHER                    -> l.price * stay * 100

\* ------------------------------------------------------ evaluation store
VARIABLES
    users,      \* users[u]: the persisted User row
    evals,      \* sequence of persisted ListingEvaluation rows; a row's id is its position
    run,        \* run[t]: one evaluate_user_listings / find_and_evaluate_listings execution
    submitted,  \* number of executions started so far
    listings,   \* ids of the rows the listing store holds
    job,        \* the handle_evaluate_listings execution of the coordinator
    calc,       \* the last call of a price normalizer or user service method and what it returned
    calls,      \* calls[c]: one find_or_create_user call in flight
    tasks       \* the Task rows, the process_task messages and the worker running one

vars == <<users, evals, run, submitted, listings, job, calc, calls, tasks>>

EvalRows == {evals[i] : i \in 1..Len(evals)}

\* mutant: the join matches rows of other users instead of this user's
HasEvaluationOtherUser(u, l) ==
    \E i \in 1..Len(evals) : evals[i].user_id # u /\ evals[i].listing_id = l

\* the outer join of _get_candidate_listings finds a row for (user, listing)
HasEvaluation(u, l) == \E i \in 1..Len(evals) : evals[i].user_id = u /\ evals[i].listing_id = l

RowsFor(u, l) == {i \in 1..Len(evals) : evals[i].user_id = u /\ evals[i].listing_id = l}

\* ----------------------------------------------------- candidate selector
\* mutant: the listing's price is converted with the user's period
PriceOkUserPeriod(usr, l) ==
    LET stay == StayDuration(usr)
        truthy == stay # None /\ stay # 0
    IN  IF truthy /\ (usr.min_price # None \/ usr.max_price # None)
        THEN LET total == ListingTotalCost([l EXCEPT !.price_period = usr.price_period], stay)
             IN  /\ usr.min_price # None =>
                        (total # None /\ total >= UserTotalCost(usr.price_period, usr.min_price, stay))
                 /\ usr.max_price # None =>
                        (total # None /\ total <= UserTotalCost(usr.price_period, usr.max_price, stay))
        ELSE IF ~truthy
        THEN /\ usr.min_price # None => (l.price # None /\ l.price >= usr.min_price)
             /\ usr.max_price # None => (l.price # None /\ l.price <= usr.max_price)
        ELSE TRUE

PriceOk(usr, l) ==
    LET stay == StayDuration(usr)
        truthy == stay # None /\ stay # 0
    IN  IF truthy /\ (usr.min_price # None \/ usr.max_price # None)
        THEN LET total == ListingTotalCost(l, stay)
             IN  /\ usr.min_price # None =>
                        (total # None /\ total >= UserTotalCost(usr.price_period, usr.min_price, stay))
                 /\ usr.max_price # None =>
                        (total # None /\ total <= UserTotalCost(usr.price_period, usr.max_price, stay))
        ELSE IF ~truthy
        THEN /\ usr.min_price # None => (l.price # None /\ l.price >= usr.min_price)
             /\ usr.max_price # None => (l.price # None /\ l.price <= usr.max_price)
        ELSE TRUE

\* mutant: the flexibility narrows the window
DateOkFlexNarrows(usr, l) ==
    (usr.preferred_start_date # None /\ usr.preferred_end_date # None) =>
        /\ l.start_date # None
        /\ l.start_date <= usr.preferred_start_date - Timedelta(usr.date_flexibility_days)
        /\ l.end_date # None
        /\ l.end_date >= usr.preferred_end_date + Timedelta(usr.date_flexibility_days)

\* mutant: the flexibility is applied to the start only
DateOkNoEndFlex(usr, l) ==
    (usr.preferred_start_date # None /\ usr.preferred_end_date # None) =>
        /\ l.start_date # None
        /\ l.start_date <= usr.preferred_start_date + Timedelta(usr.date_flexibility_days)
        /\ l.end_date # None
        /\ l.end_date >= usr.preferred_end_date

DateOk(usr, l) ==
    (usr.preferred_start_date # None /\ usr.preferred_end_date # None) =>
        /\ l.start_date # None
        /\ l.start_date <= usr.preferred_start_date + Timedelta(usr.date_flexibility_days)
        /\ l.end_date # None
        /\ l.end_date >= usr.preferred_end_date - Timedelta(usr.date_flexibility_days)

TypeOk(usr, l) ==
    usr.preferred_listing_type # "None" => l.listing_type = usr.preferred_listing_type

\* mutant: the filter on ListingEvaluation.id IS NULL is missing
NotEvaluatedIgnored(u, l) == TRUE

\* .filter(ListingEvaluation.id.is_(None))
NotEvaluated(u, l) == ~HasEvaluation(u, l)

\* the WHERE clause of the candidate query for the user row usr of user u
MatchesFor(usr, u, l) ==
    /\ NotEvaluated(u, l)
    /\ PriceOk(usr, Listing(l))
    /\ DateOk(usr, Listing(l))
    /\ TypeOk(usr, Listing(l))

Matches(u, l) == MatchesFor(users[u], u, l)

\* most recent first: descending ids
RECURSIVE DescSeq(_)
DescSeq(S) ==
    IF S = {} THEN <<>>
    ELSE LET m == CHOOSE x \in S : \A y \in S : y <= x
         IN  <<m>> \o DescSeq(S \ {m})

Take(s, n) == IF n >= Len(s) THEN s ELSE IF n <= 0 THEN <<>> ELSE SubSeq(s, 1, n)

\* the candidate query run for the user row usr of user u
SelectCandidates(usr, u, limit) ==
    Take(DescSeq({l \in listings : MatchesFor(usr, u, l)}), limit)

\* ListingAgent._get_candidate_listings
GetCandidateListings(u, limit) == SelectCandidates(users[u], u, limit)


\* ------------------------------------------------------------ cost estimate
\* ListingAgent._estimate_evaluation_cost: per-evaluation cost of the
\* default model, times the number of listings
CostPerEvaluation == EST_INPUT_TOKENS * INPUT_TOKEN_COST + EST_OUTPUT_TOKENS * OUTPUT_TOKEN_COST

EstimateEvaluationCost(num_listings) == num_listings * CostPerEvaluation

\* mutant: the quotient is rounded up
MaxAffordableRoundedUp(max_cost) == (max_cost + CostPerEvaluation - 1) \div CostPerEvaluation

\* int(max_cost / (estimated_cost / len(candidate_listings)))
MaxAffordable(max_cost) == max_cost \div CostPerEvaluation

RECURSIVE SumSeq(_)
SumSeq(s) == IF s = <<>> THEN 0 ELSE Head(s) + SumSeq(Tail(s))

\* sum(e.score for e in evaluations) / len(evaluations), in hundredths
AverageScore(scores) ==
    IF scores = <<>> THEN 0 ELSE (SumSeq(scores) * 100) \div Len(scores)

\* ------------------------------------------------------------------ state
NewUser(credits) ==
    [auth_user_id |-> "None", first_name |-> "Unknown",
     min_price |-> None, max_price |-> None, price_period |-> "month",
     preferred_start_date |-> None, preferred_end_date |-> None,
     date_flexibility_days |-> 0, preferred_listing_type |-> "None",
     preference_profile |-> "None",
     preference_version |-> 1, last_preference_update |-> None,
     evaluation_credits |-> credits]

NoResult == [returned |-> FALSE, success |-> FALSE, error |-> "",
             total_cost |-> 0, remaining_credits |-> 0]

\* no price normalizer call yet
NoCalc == [method |-> "none", price |-> None, price_period |-> "None",
           duration_days |-> 0, total |-> 0]

\* no find_or_create_user call has been made
NoCalls == <<>>

\* no job has been scheduled
NoTasks ==
    [rows |-> <<>>, created |-> {}, queue |-> <<>>, worker |-> 0,
     raised |-> {}, clock |-> 0]

\* Task.result before process_task wrote it
NoTaskResult == [set |-> FALSE, success |-> FALSE, error |-> "None"]

\* Task(task_type=job_type.value, context=context or {}, status="pending")
NewTask(job_type) ==
    [task_type |-> job_type, status |-> "pending", result |-> NoTaskResult,
     error_message |-> "None", started_at |-> None, completed_at |-> None]

\* the coordinator before handle_evaluate_listings is called
IdleJob ==
    [pc |-> "idle", users_found |-> 0, tasks_created |-> 0,
     eligible |-> {}, pending |-> {}, sent |-> <<>>, failed |-> {}, taken |-> 0,
     result |-> [returned |-> FALSE, users_found |-> 0, tasks_created |-> 0]]

IdleRun ==
    [pc |-> "idle", user_id |-> "nobody", retries |-> 0, max_cost |-> 0,
     candidates |-> <<>>, idx |-> 1, total_cost |-> 0, evaluations |-> <<>>,
     found |-> 0, completed |-> 0, error_count |-> 0, budget_exceeded |-> FALSE,
     average_score |-> 0, loaded |-> 0, expired |-> FALSE,
     stored |-> <<>>, prior |-> {}, exc |-> "none", last |-> "none",
     limit |-> 0, recommendations |-> <<>>, result |-> NoResult]

Init ==
    /\ users \in [Users -> {NewUser(c) : c \in InitialCredits}]
    /\ evals = <<>>
    /\ run = [t \in {"t1"} |-> IdleRun]
    /\ submitted = 0
    /\ listings = Listings
    /\ job = IdleJob
    /\ calc = NoCalc
    /\ calls = NoCalls
    /\ tasks = NoTasks

\* ------------------------------------------------------ user preferences
\* UserPreferenceUpdates; None is the value of a field the request leaves
\* unset, and cleared names the fields the request sets to None explicitly
PrefUpdate(mn, mx, per, sd, ed, fx, ty) ==
    [min_price |-> mn, max_price |-> mx, price_period |-> per,
     preferred_start_date |-> sd, preferred_end_date |-> ed,
     date_flexibility_days |-> fx, preferred_listing_type |-> ty, cleared |-> {}]

PrefUpdates ==
    { PrefUpdate(100, 175, "day", None, None, None, "None"),
      PrefUpdate(None, None, "None", Date(10), Date(24), None, "None"),
      PrefUpdate(None, None, "None", None, None, 5, "rental"),
      PrefUpdate(500, None, "None", Date(30), None, None, "None") }

ValidatePriceRange(min_price, max_price) ==
    ~(min_price # None /\ max_price # None /\ min_price > max_price)

\* mutant: equal dates pass
ValidateDateRangeAllowsEqual(start_date, end_date) ==
    ~(start_date # None /\ end_date # None /\ start_date > end_date)

ValidateDateRange(start_date, end_date) ==
    ~(start_date # None /\ end_date # None /\ start_date >= end_date)

Pick(new, old) == IF new # None THEN new ELSE old
PickS(new, old) == IF new # "None" THEN new ELSE old

\* mutant: only the values of the request are validated, not the stored ones
ValidUpdateRequestOnly(usr, upd) ==
    /\ ValidatePriceRange(upd.min_price, upd.max_price)
    /\ ValidateDateRange(upd.preferred_start_date, upd.preferred_end_date)

\* the two cross-field validations on the merged values
ValidUpdate(usr, upd) ==
    /\ ValidatePriceRange(Pick(upd.min_price, usr.min_price),
                          Pick(upd.max_price, usr.max_price))
    /\ ValidateDateRange(Pick(upd.preferred_start_date, usr.preferred_start_date),
                         Pick(upd.preferred_end_date, usr.preferred_end_date))

\* setattr for one field of model_dump(exclude_unset=True)
SetField(upd, field, new, old) == IF field \in upd.cleared THEN None ELSE Pick(new, old)
SetFieldS(upd, field, new, old) == IF field \in upd.cleared THEN "None" ELSE PickS(new, old)

\* the user row after the provided fields and the tracking fields are
\* written; last_preference_update is a logical time, the number of the
\* update on this user
ApplyUpdates(usr, upd) ==
    [usr EXCEPT
       !.min_price = SetField(upd, "min_price", upd.min_price, @),
       !.max_price = SetField(upd, "max_price", upd.max_price, @),
       !.price_period = SetFieldS(upd, "price_period", upd.price_period, @),
       !.preferred_start_date = SetField(upd, "preferred_start_date", upd.preferred_start_date, @),
       !.preferred_end_date = SetField(upd, "preferred_end_date", upd.preferred_end_date, @),
       !.date_flexibility_days = SetField(upd, "date_flexibility_days", upd.date_flexibility_days, @),
       !.preferred_listing_type = SetFieldS(upd, "preferred_listing_type", upd.preferred_listing_type, @),
       !.preference_version = @ + 1,
       !.last_preference_update = usr.preference_version]

\* UserService.update_user_preferences
UpdateUserPreferences(u, upd) ==
    /\ users[u].preference_version < MaxPrefVersion
    /\ users' = IF ValidUpdate(users[u], upd)
                THEN [users EXCEPT ![u] = ApplyUpdates(users[u], upd)]
                ELSE users
    /\ UNCHANGED <<calls, tasks, listings, job, calc, evals, run, submitted>>

\* UserService.update_user_preferences as its caller sees it: the request,
\* the row before the call and the Result returned are kept in calc
UpdateUserPreferencesCall(u, upd) ==
    /\ users[u].preference_version <= MaxUpdates
    /\ users' = IF ValidUpdate(users[u], upd)
                THEN [users EXCEPT ![u] = ApplyUpdates(users[u], upd)]
                ELSE users
    /\ calc' = [method |-> "UserService.update_user_preferences",
                user_id |-> u, updates |-> upd, before |-> users[u],
                result |-> IF ValidUpdate(users[u], upd) THEN "Success" ELSE "Failure"]
    /\ UNCHANGED <<calls, tasks, listings, job, evals, run, submitted>>

\* update_user_preferences with only preference_profile set (a new text, or
\* None to clear it)
UpdatePreferenceProfile(u, profile) ==
    /\ users[u].preference_version < MaxPrefVersion
    /\ users' = [users EXCEPT ![u] = [@ EXCEPT !.preference_profile = profile,
                                               !.preference_version = @ + 1,
                                               !.last_preference_update =
                                                   users[u].preference_version]]
    /\ UNCHANGED <<calls, tasks, listings, job, calc, evals, run, submitted>>

\* ----------------------------------------------------------- user accounts
\* a caller that has no find_or_create_user call in flight
IdleCall ==
    [pc |-> "idle", auth_user_id |-> "None", first_name |-> "Unknown",
     evaluation_credits |-> 0, found |-> 0, returned |-> 0, error |-> "none"]

\* query(User).filter(User.auth_user_id == auth_user_id).first(): the row's
\* position, 0 for no row
FindByAuthUserId(auth_user_id) ==
    IF \E i \in DOMAIN users : users[i].auth_user_id = auth_user_id
    THEN CHOOSE i \in DOMAIN users : users[i].auth_user_id = auth_user_id
    ELSE 0

\* find_or_create_user(user_data) up to its query; a request without
\* auth_user_id raises at once
FindOrCreateUser(c, auth_user_id, first_name, credits) ==
    /\ calls[c].pc \in {"idle", "done"}
    /\ LET call == [IdleCall EXCEPT !.auth_user_id = auth_user_id,
                                    !.first_name = first_name,
                                    !.evaluation_credits = credits]
           found == FindByAuthUserId(auth_user_id)
       IN  calls' = [calls EXCEPT ![c] =
               IF auth_user_id = "None"
               THEN [call EXCEPT !.pc = "done", !.error = "UserValidationError"]
               ELSE IF found # 0
               THEN [call EXCEPT !.pc = "found", !.found = found]
               ELSE [call EXCEPT !.pc = "create"]]
    /\ UNCHANGED <<tasks, users, evals, run, submitted, listings, job, calc>>

\* mutant: evaluation_credits is not excluded from the fields copied
UpdateFoundUserWithCredits(c) ==
    /\ calls[c].pc = "found"
    /\ users' = [users EXCEPT ![calls[c].found] =
                   [@ EXCEPT !.first_name = calls[c].first_name,
                             !.evaluation_credits = calls[c].evaluation_credits]]
    /\ calls' = [calls EXCEPT ![c] = [@ EXCEPT !.pc = "done", !.returned = calls[c].found]]
    /\ UNCHANGED <<tasks, evals, run, submitted, listings, job, calc>>

\* the user exists: the request's values other than auth_user_id and
\* evaluation_credits are copied to the row, which is returned
UpdateFoundUser(c) ==
    /\ calls[c].pc = "found"
    /\ users' = [users EXCEPT ![calls[c].found] =
                   [@ EXCEPT !.first_name = calls[c].first_name]]
    /\ calls' = [calls EXCEPT ![c] = [@ EXCEPT !.pc = "done", !.returned = calls[c].found]]
    /\ UNCHANGED <<tasks, evals, run, submitted, listings, job, calc>>

\* no user was found: create_user inserts the row unless the unique index
\* on auth_user_id rejects it, which find_or_create_user raises as
\* UserServiceException
CreateUser(c) ==
    /\ calls[c].pc = "create"
    /\ IF FindByAuthUserId(calls[c].auth_user_id) # 0
       THEN /\ calls' = [calls EXCEPT ![c] =
                           [@ EXCEPT !.pc = "done", !.error = "UserServiceException"]]
            /\ UNCHANGED users
       ELSE /\ users' = Append(users,
                           [NewUser(calls[c].evaluation_credits) EXCEPT
                               !.auth_user_id = calls[c].auth_user_id,
                               !.first_name = calls[c].first_name])
            /\ calls' = [calls EXCEPT ![c] =
                           [@ EXCEPT !.pc = "done", !.returned = Len(users) + 1]]
    /\ UNCHANGED <<tasks, evals, run, submitted, listings, job, calc>>

\* ------------------------------------------------------------ orchestrator
\* app.send_task("src.workers.tasks.evaluate_user_listings", args=[user_id])
Submit(t, uid) ==
    /\ run[t].pc \in {"idle", "done"}
    /\ submitted < MaxRuns
    /\ submitted' = submitted + 1
    /\ run' = [run EXCEPT ![t] = [IdleRun EXCEPT !.pc = "queued", !.user_id = uid]]
    /\ UNCHANGED <<calls, tasks, listings, job, calc, users, evals>>

\* mutant: every exception class is retried
PropagateAnyClass(r, exc) ==
    IF r.retries < MAX_RETRIES
    THEN [r EXCEPT !.pc = "queued", !.retries = @ + 1, !.exc = exc,
                   !.prior = @ \cup {evals[r.stored[i]].listing_id : i \in 1..Len(r.stored)}]
    ELSE [r EXCEPT !.pc = "done", !.exc = exc,
                   !.result = [NoResult EXCEPT !.error = exc]]

\* what happens to an exception that leaves evaluate_user_listings:
\* autoretry_for re-queues it while retries < max_retries, otherwise the
\* task fails with the exception
Propagate(r, exc) ==
    IF exc \in AutoretryFor /\ r.retries < MAX_RETRIES
    THEN [r EXCEPT !.pc = "queued", !.retries = @ + 1, !.exc = exc,
                   !.prior = @ \cup {evals[r.stored[i]].listing_id : i \in 1..Len(r.stored)}]
    ELSE [r EXCEPT !.pc = "done", !.exc = exc,
                   !.result = [NoResult EXCEPT !.error = exc]]

Returned(r, success, error, total_cost, remaining) ==
    [r EXCEPT !.pc = "done",
              !.result = [returned |-> TRUE, success |-> success, error |-> error,
                          total_cost |-> total_cost, remaining_credits |-> remaining]]

\* mutant: the threshold itself is rejected too
InsufficientCreditsInclusive(credits) == credits <= MIN_CREDIT_THRESHOLD

\* if user.evaluation_credits < MIN_CREDIT_THRESHOLD
InsufficientCredits(credits) == credits < MIN_CREDIT_THRESHOLD

\* fresh per-attempt fields of a run
Attempt(r) ==
    [IdleRun EXCEPT !.user_id = r.user_id, !.retries = r.retries, !.prior = r.prior]

\* evaluate_user_listings up to the scoring loop: user lookup, credit
\* threshold, candidate fetch and the pre-flight trim of
\* find_and_evaluate_listings
BeginRun(r, max_cost) ==
    LET fetched   == GetCandidateListings(r.user_id, DEFAULT_MAX_EVALUATIONS)
        over      == fetched # <<>> /\ EstimateEvaluationCost(Len(fetched)) > max_cost
        kept      == IF over THEN Take(fetched, MaxAffordable(max_cost)) ELSE fetched
    IN  [Attempt(r) EXCEPT
            !.pc = IF kept = <<>> THEN "finish" ELSE "loop",
            !.max_cost = max_cost,
            !.limit = DEFAULT_MAX_EVALUATIONS,
            !.loaded = max_cost,
            !.candidates = kept,
            !.found = Len(fetched),
            !.budget_exceeded = over]

\* mutant: the pre-flight trim leaves budget_exceeded alone
BeginFindAndEvaluateUnflagged(r, max_evaluations, max_cost) ==
    LET fetched   == GetCandidateListings(r.user_id, max_evaluations)
        over      == fetched # <<>> /\ EstimateEvaluationCost(Len(fetched)) > max_cost
        kept      == IF over THEN Take(fetched, MaxAffordable(max_cost)) ELSE fetched
    IN  [Attempt(r) EXCEPT
            !.pc = IF kept = <<>> THEN "finish" ELSE "loop",
            !.max_cost = max_cost,
            !.limit = max_evaluations,
            !.loaded = users[r.user_id].evaluation_credits,
            !.candidates = kept,
            !.found = Len(fetched),
            !.budget_exceeded = FALSE]

\* mutant: the candidate query is not given max_evaluations as its limit
BeginFindAndEvaluateNoLimit(r, max_evaluations, max_cost) ==
    LET fetched   == GetCandidateListings(r.user_id, 100)
        over      == fetched # <<>> /\ EstimateEvaluationCost(Len(fetched)) > max_cost
        kept      == IF over THEN Take(fetched, MaxAffordable(max_cost)) ELSE fetched
    IN  [Attempt(r) EXCEPT
            !.pc = IF kept = <<>> THEN "finish" ELSE "loop",
            !.max_cost = max_cost,
            !.limit = max_evaluations,
            !.loaded = users[r.user_id].evaluation_credits,
            !.candidates = kept,
            !.found = Len(fetched),
            !.budget_exceeded = over]

\* find_and_evaluate_listings(user, max_evaluations, max_cost) up to the
\* scoring loop, for a caller that chooses both arguments
BeginFindAndEvaluate(r, max_evaluations, max_cost) ==
    LET fetched   == GetCandidateListings(r.user_id, max_evaluations)
        over      == fetched # <<>> /\ EstimateEvaluationCost(Len(fetched)) > max_cost
        kept      == IF over THEN Take(fetched, MaxAffordable(max_cost)) ELSE fetched
    IN  [Attempt(r) EXCEPT
            !.pc = IF kept = <<>> THEN "finish" ELSE "loop",
            !.max_cost = max_cost,
            !.limit = max_evaluations,
            !.loaded = users[r.user_id].evaluation_credits,
            !.candidates = kept,
            !.found = Len(fetched),
            !.budget_exceeded = over]

Start(t) ==
    /\ run[t].pc = "queued"
    /\ LET r == run[t] IN
       IF r.user_id \notin DOMAIN users
       THEN run' = [run EXCEPT ![t] = Returned(Attempt(r), FALSE, "User not found", 0, 0)]
       ELSE IF InsufficientCredits(users[r.user_id].evaluation_credits)
       THEN run' = [run EXCEPT ![t] = Returned(Attempt(r), FALSE, "Insufficient credits", 0, 0)]
       ELSE run' = [run EXCEPT ![t] = BeginRun(r, users[r.user_id].evaluation_credits)]
    /\ UNCHANGED <<calls, tasks, listings, job, calc, users, evals, submitted>>

\* an exception before the loop: the user or candidate query, or building
\* the agent, raises
StartRaises(t, exc) ==
    /\ run[t].pc = "queued"
    /\ run[t].user_id \in DOMAIN users
    /\ ~InsufficientCredits(users[run[t].user_id].evaluation_credits)
    /\ run' = [run EXCEPT ![t] =
                 IF exc \in PermanentErrors
                 THEN [Returned(Attempt(run[t]), FALSE, "Permanent error", 0, 0) EXCEPT !.exc = exc]
                 ELSE Propagate(Attempt(run[t]), exc)]
    /\ UNCHANGED <<calls, tasks, listings, job, calc, users, evals, submitted>>

\* ------------------------------------------------------------ scoring loop
\* mutant: every row is written under one fixed user
FromEvaluationResultFixedUser(user_id, listing_id, score, cost_usd) ==
    [user_id |-> "u1", listing_id |-> listing_id, score |-> score, cost_usd |-> cost_usd]

\* ListingEvaluation.from_evaluation_result: the row built from a result
FromEvaluationResult(user_id, listing_id, score, cost_usd) ==
    [user_id |-> user_id, listing_id |-> listing_id, score |-> score, cost_usd |-> cost_usd]

\* ListingAgent._store_evaluation: the row has no id yet, so merge() finds
\* nothing to update and the commit inserts it under a fresh id
StoreEvaluation(rows, row) == Append(rows, row)

\* position after one candidate: the loop ends with the list
Advance(r) ==
    [r EXCEPT !.idx = @ + 1,
              !.pc = IF r.idx + 1 > Len(r.candidates) THEN "finish" ELSE "loop"]

\* the user row as the session sees it when the Evaluator reads it: a
\* commit expired it, so it is loaded again
Reload(r) ==
    IF r.expired
    THEN [r EXCEPT !.loaded = users[r.user_id].evaluation_credits, !.expired = FALSE]
    ELSE r

InLoop(t) == run[t].pc = "loop" /\ run[t].idx <= Len(run[t].candidates)

\* the budget check at the head of an iteration: total_cost >= max_cost
BudgetReached(r) == r.total_cost >= r.max_cost

\* if total_cost >= max_cost: budget_exceeded = True; break
BudgetStop(t) ==
    /\ InLoop(t)
    /\ BudgetReached(run[t])
    /\ run' = [run EXCEPT ![t] = [@ EXCEPT !.budget_exceeded = TRUE, !.pc = "finish",
                                              !.last = "budget_stop"]]
    /\ UNCHANGED <<calls, tasks, listings, job, calc, users, evals, submitted>>

\* mutant: an Evaluator exception ends the loop
EvaluatorRaisesAborts(t) ==
    /\ InLoop(t)
    /\ ~BudgetReached(run[t])
    /\ run' = [run EXCEPT ![t] = [Reload(@) EXCEPT !.error_count = @ + 1,
                                                   !.last = "evaluator_raised",
                                                   !.pc = "finish"]]
    /\ UNCHANGED <<calls, tasks, listings, job, calc, users, evals, submitted>>

\* the Evaluator raises for the current candidate
EvaluatorRaises(t) ==
    /\ InLoop(t)
    /\ ~BudgetReached(run[t])
    /\ run' = [run EXCEPT ![t] = Advance([Reload(@) EXCEPT !.error_count = @ + 1,
                                                          !.last = "evaluator_raised"])]
    /\ UNCHANGED <<calls, tasks, listings, job, calc, users, evals, submitted>>

\* the Evaluator answers; the result is appended and its cost added, then
\* _store_evaluation commits the row
EvaluateListing(t, score, cost) ==
    /\ InLoop(t)
    /\ ~BudgetReached(run[t])
    /\ LET r   == Reload(run[t])
           row == FromEvaluationResult(r.user_id, r.candidates[r.idx], score, cost)
       IN  /\ evals' = StoreEvaluation(evals, row)
           /\ run' = [run EXCEPT ![t] =
                        Advance([r EXCEPT !.evaluations = Append(@, score),
                                          !.total_cost = @ + cost,
                                          !.completed = @ + 1,
                                          !.stored = Append(@, Len(evals')),
                                          !.last = "stored",
                                          !.expired = TRUE])]
    /\ UNCHANGED <<calls, tasks, listings, job, calc, users, submitted>>

\* the Evaluator answers but the store step raises: caught by the loop
StoreRaises(t, score, cost) ==
    /\ InLoop(t)
    /\ ~BudgetReached(run[t])
    /\ run' = [run EXCEPT ![t] =
                 Advance([Reload(@) EXCEPT !.evaluations = Append(@, score),
                                           !.total_cost = @ + cost,
                                           !.error_count = @ + 1,
                                           !.last = "store_raised",
                                           !.expired = TRUE])]
    /\ UNCHANGED <<calls, tasks, listings, job, calc, users, evals, submitted>>

\* ------------------------------------------------------- credit deduction
\* the balance the session holds for the user when the task reads it
SessionCredits(r) ==
    IF r.expired THEN users[r.user_id].evaluation_credits ELSE r.loaded

\* the read half of user.evaluation_credits -= actual_cost: the expired row
\* is loaded again; the write follows in Finish
LoadCredits(t) ==
    /\ run[t].pc = "finish"
    /\ run[t].total_cost > 0
    /\ run[t].expired
    /\ run' = [run EXCEPT ![t] = Reload(@)]
    /\ UNCHANGED <<calls, tasks, listings, job, calc, users, evals, submitted>>

\* user.evaluation_credits -= actual_cost
Deducted(balance, actual_cost) == balance - actual_cost

\* final statistics, then: if actual_cost > 0, deduct and commit; return
Finish(t) ==
    /\ run[t].pc = "finish"
    /\ LET r0        == run[t]
           r         == [r0 EXCEPT !.average_score = AverageScore(r0.evaluations)]
           remaining == IF r.total_cost > 0
                        THEN Deducted(SessionCredits(r), r.total_cost)
                        ELSE SessionCredits(r)
       IN  /\ users' = IF r.total_cost > 0
                       THEN [users EXCEPT ![r.user_id].evaluation_credits = remaining]
                       ELSE users
           /\ run' = [run EXCEPT ![t] = Returned(r, TRUE, "", r.total_cost, remaining)]
    /\ UNCHANGED <<calls, tasks, listings, job, calc, evals, submitted>>

\* the commit of the deduction raises SQLAlchemyError
FinishRaises(t) ==
    /\ run[t].pc = "finish"
    /\ run[t].total_cost > 0
    /\ LET r == [run[t] EXCEPT !.average_score = AverageScore(run[t].evaluations)]
       IN  run' = [run EXCEPT ![t] = Propagate(r, "SQLAlchemyError")]
    /\ UNCHANGED <<calls, tasks, listings, job, calc, users, evals, submitted>>

\* ------------------------------------------------- the agent called directly
\* caps and limits a caller of ListingAgent passes
AgentMaxCosts == {100000, 200000, 400000}
AgentMaxEvaluations == {1, DEFAULT_MAX_EVALUATIONS}

\* agent.find_and_evaluate_listings(user, max_evaluations, max_cost)
FindAndEvaluateListings(t, u, max_evaluations, max_cost) ==
    /\ run[t].pc \in {"idle", "done"}
    /\ submitted < MaxRuns
    /\ submitted' = submitted + 1
    /\ run' = [run EXCEPT ![t] =
                 BeginFindAndEvaluate([IdleRun EXCEPT !.user_id = u], max_evaluations, max_cost)]
    /\ UNCHANGED <<calls, tasks, listings, job, calc, users, evals>>

\* the final statistics of find_and_evaluate_listings and its return
ReturnStats(t) ==
    /\ run[t].pc = "finish"
    /\ LET r == [run[t] EXCEPT !.average_score = AverageScore(run[t].evaluations)]
       IN  run' = [run EXCEPT ![t] =
                     Returned(r, TRUE, "", r.total_cost, users[r.user_id].evaluation_credits)]
    /\ UNCHANGED <<calls, tasks, listings, job, calc, users, evals, submitted>>

\* ----------------------------------------------- the selector called directly
\* agent._get_candidate_listings(user, limit): the list it returns is kept
\* in candidates
GetCandidates(t, u, limit) ==
    /\ run[t].pc \in {"idle", "done"}
    /\ LET c == GetCandidateListings(u, limit)
       IN  run' = [run EXCEPT ![t] =
                     [IdleRun EXCEPT !.pc = "done", !.user_id = u, !.limit = limit,
                                     !.candidates = c, !.found = Len(c),
                                     !.last = "candidates_returned"]]
    /\ UNCHANGED <<calls, tasks, users, evals, submitted, listings, job, calc>>

\* ------------------------------------------------------ recommendation reader
\* the rows of the join of evaluations and listings that belong to user u
RecommendationRows(u) ==
    {i \in 1..Len(evals) : evals[i].user_id = u /\ evals[i].listing_id \in listings}

\* mutant: equal scores are ordered oldest first
FirstRowOldestFirst(S) ==
    CHOOSE i \in S : \A j \in S :
        \/ evals[i].score > evals[j].score
        \/ (evals[i].score = evals[j].score /\ i <= j)

\* order_by(score.desc(), created_at.desc()): the row that comes first; a
\* row's position is the order of its creation
FirstRow(S) ==
    CHOOSE i \in S : \A j \in S :
        \/ evals[i].score > evals[j].score
        \/ (evals[i].score = evals[j].score /\ i >= j)

RECURSIVE OrderedRows(_)
OrderedRows(S) ==
    IF S = {} THEN <<>>
    ELSE LET i == FirstRow(S) IN <<i>> \o OrderedRows(S \ {i})

\* agent.get_recommendations(user, limit): the rows it returns are kept in
\* recommendations
GetRecommendations(t, u, limit) ==
    /\ run[t].pc \in {"idle", "done"}
    /\ run' = [run EXCEPT ![t] =
                 [IdleRun EXCEPT !.pc = "done", !.user_id = u, !.limit = limit,
                                 !.recommendations = Take(OrderedRows(RecommendationRows(u)), limit),
                                 !.last = "recommendations_returned"]]
    /\ UNCHANGED <<calls, tasks, users, evals, submitted, listings, job, calc>>

\* -------------------------------------------------------------- coordinator
\* the filter of users_query
Eligible(u) ==
    /\ users[u].preference_profile # "None"
    /\ users[u].evaluation_credits >= MIN_CREDIT_THRESHOLD

\* handle_evaluate_listings up to users_query.count() and the early return
JobCount ==
    /\ job.pc = "idle"
    /\ LET n == Cardinality({u \in DOMAIN users : Eligible(u)})
       IN  job' = IF n = 0
                  THEN [job EXCEPT !.pc = "done",
                                   !.result = [returned |-> TRUE, users_found |-> 0,
                                               tasks_created |-> 0]]
                  ELSE [job EXCEPT !.pc = "query", !.users_found = n]
    /\ UNCHANGED <<calls, tasks, users, evals, run, submitted, listings, calc>>

\* for user in users_query: the query runs again when the loop starts
JobQuery ==
    /\ job.pc = "query"
    /\ LET found == {u \in DOMAIN users : Eligible(u)}
       IN  job' = [job EXCEPT !.pc = "send", !.eligible = found, !.pending = found]
    /\ UNCHANGED <<calls, tasks, users, evals, run, submitted, listings, calc>>

\* mutant: a send that raises ends the loop
JobSendFailsAborts(u) ==
    /\ job.pc = "send"
    /\ u \in job.pending
    /\ job' = [job EXCEPT !.pending = {}, !.failed = @ \cup {u}]
    /\ UNCHANGED <<calls, tasks, users, evals, run, submitted, listings, calc>>

\* app.send_task raises for this user: logged, the loop goes on
JobSendFails(u) ==
    /\ job.pc = "send"
    /\ u \in job.pending
    /\ job' = [job EXCEPT !.pending = @ \ {u}, !.failed = @ \cup {u}]
    /\ UNCHANGED <<calls, tasks, users, evals, run, submitted, listings, calc>>

\* app.send_task("src.workers.tasks.evaluate_user_listings", args=[user.id])
JobSend(u) ==
    /\ job.pc = "send"
    /\ u \in job.pending
    /\ job' = [job EXCEPT !.pending = @ \ {u}, !.sent = Append(@, u),
                          !.tasks_created = @ + 1]
    /\ UNCHANGED <<calls, tasks, users, evals, run, submitted, listings, calc>>

\* the loop is over: the result dictionary
JobReturn ==
    /\ job.pc = "send"
    /\ job.pending = {}
    /\ job' = [job EXCEPT !.pc = "done",
                          !.result = [returned |-> TRUE, users_found |-> job.users_found,
                                      tasks_created |-> job.tasks_created]]
    /\ UNCHANGED <<calls, tasks, users, evals, run, submitted, listings, calc>>

\* a worker takes the oldest task message the coordinator sent
Deliver(t) ==
    /\ run[t].pc \in {"idle", "done"}
    /\ job.taken < Len(job.sent)
    /\ run' = [run EXCEPT ![t] =
                 [IdleRun EXCEPT !.pc = "queued", !.user_id = job.sent[job.taken + 1]]]
    /\ job' = [job EXCEPT !.taken = @ + 1]
    /\ submitted' = submitted + 1
    /\ UNCHANGED <<calls, tasks, users, evals, listings, calc>>

\* ------------------------------------------------------------ task table
\* the task types process_task dispatches on
JobTypes == {"evaluate_listings", "sync_listings"}

\* what handle_sync_listings can return: every source synced, a source
\* failed, or the sync itself raised and the handler caught it
SyncOutcomes ==
    {[set |-> TRUE, success |-> TRUE, error |-> "None"],
     [set |-> TRUE, success |-> FALSE, error |-> "None"],
     [set |-> TRUE, success |-> FALSE, error |-> "Exception"]}

\* what a handler can raise
HandlerErrors == {"OperationalError"}

\* schedule_job up to the commit of the new row
ScheduleJob(job_type) ==
    /\ Len(tasks.rows) < MaxTasks
    /\ tasks' = [tasks EXCEPT !.rows = Append(@, NewTask(job_type)),
                              !.created = @ \cup {Len(tasks.rows) + 1}]
    /\ UNCHANGED <<calls, users, evals, run, submitted, listings, job, calc>>

\* app.send_task("src.workers.tasks.process_task", args=[task_id])
SendTask(task_id) ==
    /\ task_id \in tasks.created
    /\ tasks' = [tasks EXCEPT !.created = @ \ {task_id},
                              !.queue = Append(@, task_id)]
    /\ UNCHANGED <<calls, users, evals, run, submitted, listings, job, calc>>

\* send_task raises (broker unreachable): schedule_job raises, the row stays
SendTaskFails(task_id) ==
    /\ task_id \in tasks.created
    /\ tasks' = [tasks EXCEPT !.created = @ \ {task_id}]
    /\ UNCHANGED <<calls, users, evals, run, submitted, listings, job, calc>>

\* process_task up to the first commit: the row is loaded and marked
ProcessTask(task_id) ==
    /\ tasks.worker = 0
    /\ tasks.queue # <<>>
    /\ task_id = Head(tasks.queue)
    /\ task_id \in DOMAIN tasks.rows
    /\ tasks' = [tasks EXCEPT !.queue = Tail(@),
                              !.worker = task_id,
                              !.clock = @ + 1,
                              !.rows[task_id].status = "in_progress",
                              !.rows[task_id].started_at = tasks.clock + 1]
    /\ UNCHANGED <<calls, users, evals, run, submitted, listings, job, calc>>

\* process_task is inside the handler of this task type
HandlerRunning(job_type) ==
    /\ tasks.worker # 0
    /\ tasks.rows[tasks.worker].task_type = job_type

\* the coordinator after its call is over; the messages it sent stay queued
RestJob ==
    [IdleJob EXCEPT !.sent = job.sent, !.taken = job.taken]

\* the handler returned: status completed, completed_at, result, commit
TaskCompleted(result) ==
    [tasks EXCEPT !.worker = 0,
                  !.clock = @ + 1,
                  !.rows[tasks.worker].status = "completed",
                  !.rows[tasks.worker].completed_at = tasks.clock + 1,
                  !.rows[tasks.worker].result = result]

\* result = handle_evaluate_listings(task), then the completed branch
CompleteEvaluateListings ==
    /\ HandlerRunning("evaluate_listings")
    /\ job.pc = "done"
    /\ tasks' = TaskCompleted([set |-> TRUE, success |-> TRUE, error |-> "None"])
    /\ job' = RestJob
    /\ UNCHANGED <<calls, users, evals, run, submitted, listings, calc>>

\* result = handle_sync_listings(task), then the completed branch
CompleteSyncListings(result) ==
    /\ HandlerRunning("sync_listings")
    /\ tasks' = TaskCompleted(result)
    /\ UNCHANGED <<calls, users, evals, run, submitted, listings, job, calc>>

\* the handler raises: status failed, completed_at, error_message, commit,
\* raise
HandlerRaises(exc) ==
    /\ tasks.worker # 0
    /\ job.pc # "done"
    /\ tasks' = [tasks EXCEPT !.worker = 0,
                              !.clock = @ + 1,
                              !.raised = @ \cup {tasks.worker},
                              !.rows[tasks.worker].status = "failed",
                              !.rows[tasks.worker].completed_at = tasks.clock + 1,
                              !.rows[tasks.worker].error_message = exc]
    /\ job' = RestJob
    /\ UNCHANGED <<calls, users, evals, run, submitted, listings, calc>>

\* -------------------------------------------------------- price normalizer
Periods == {"day", "week", "month"}

\* listing.calculate_total_cost_for_duration(duration_days)
CalculateListingTotal(price, price_period, duration_days) ==
    /\ calc' = [method |-> "Listing.calculate_total_cost_for_duration",
                price |-> price, price_period |-> price_period,
                duration_days |-> duration_days,
                total |-> CalculateTotalCostForDuration(price, price_period, duration_days)]
    /\ UNCHANGED <<calls, tasks, users, evals, run, submitted, listings, job>>

\* user._calculate_total_cost(price, duration_days)
CalculateUserTotal(price, price_period, duration_days) ==
    /\ calc' = [method |-> "User._calculate_total_cost",
                price |-> price, price_period |-> price_period,
                duration_days |-> duration_days,
                total |-> CalculateTotalCost(price_period, price, duration_days)]
    /\ UNCHANGED <<calls, tasks, users, evals, run, submitted, listings, job>>

\* ---------------------------------------------------------- specification
Next ==
    \/ \E u \in Users, upd \in PrefUpdates : UpdateUserPreferences(u, upd)
    \/ \E t \in DOMAIN run, uid \in UserIds : Submit(t, uid)
    \/ \E t \in DOMAIN run : Start(t)
    \/ \E t \in DOMAIN run, exc \in Raisable : StartRaises(t, exc)
    \/ \E t \in DOMAIN run : BudgetStop(t)
    \/ \E t \in DOMAIN run : EvaluatorRaises(t)
    \/ \E t \in DOMAIN run, e \in EvaluationResults : EvaluateListing(t, e.score, e.cost_usd)
    \/ \E t \in DOMAIN run, e \in EvaluationResults : StoreRaises(t, e.score, e.cost_usd)
    \/ \E t \in DOMAIN run : Finish(t)
    \/ \E t \in DOMAIN run : FinishRaises(t)

Spec == Init /\ [][Next]_vars

\* Two workers execute evaluate_user_listings at the same time (a scheduled
\* run and a manually submitted one); no exception leaves a task and the
\* preferences stay as they are.
InitConcurrent ==
    /\ users \in [Users -> {NewUser(c) : c \in {MIN_CREDIT_THRESHOLD}}]
    /\ evals = <<>>
    /\ run = [t \in Tasks |-> IdleRun]
    /\ submitted = 0
    /\ listings = Listings
    /\ job = IdleJob
    /\ calc = NoCalc
    /\ calls = NoCalls
    /\ tasks = NoTasks

NextConcurrent ==
    \/ \E t \in DOMAIN run, uid \in Users : Submit(t, uid)
    \/ \E t \in DOMAIN run : Start(t)
    \/ \E t \in DOMAIN run : BudgetStop(t)
    \/ \E t \in DOMAIN run : EvaluatorRaises(t)
    \/ \E t \in DOMAIN run, e \in EvaluationResults : EvaluateListing(t, e.score, e.cost_usd)
    \/ \E t \in DOMAIN run : LoadCredits(t)
    \/ \E t \in DOMAIN run : Finish(t)

SpecConcurrent == InitConcurrent /\ [][NextConcurrent]_vars

\* A caller other than the task runs the agent with its own cap and limit;
\* no credits are deducted on this path.
InitAgent ==
    /\ users \in [Users -> {NewUser(c) : c \in {MIN_CREDIT_THRESHOLD}}]
    /\ evals = <<>>
    /\ run = [t \in {"t1"} |-> IdleRun]
    /\ submitted = 0
    /\ listings = Listings
    /\ job = IdleJob
    /\ calc = NoCalc
    /\ calls = NoCalls
    /\ tasks = NoTasks

NextAgent ==
    \/ \E u \in Users, upd \in PrefUpdates : UpdateUserPreferences(u, upd)
    \/ \E t \in DOMAIN run, u \in Users, n \in AgentMaxEvaluations, c \in AgentMaxCosts :
           FindAndEvaluateListings(t, u, n, c)
    \/ \E t \in DOMAIN run : BudgetStop(t)
    \/ \E t \in DOMAIN run : EvaluatorRaises(t)
    \/ \E t \in DOMAIN run, e \in EvaluationResults : EvaluateListing(t, e.score, e.cost_usd)
    \/ \E t \in DOMAIN run, e \in EvaluationResults : StoreRaises(t, e.score, e.cost_usd)
    \/ \E t \in DOMAIN run : ReturnStats(t)

SpecAgent == InitAgent /\ [][NextAgent]_vars

\* one step of the run in slot t: the loop is sequential code, so a run that
\* can take its next step takes it
RunStep(t) ==
    \/ BudgetStop(t)
    \/ EvaluatorRaises(t)
    \/ \E e \in EvaluationResults : EvaluateListing(t, e.score, e.cost_usd)
    \/ \E e \in EvaluationResults : StoreRaises(t, e.score, e.cost_usd)
    \/ ReturnStats(t)

SpecAgentFair == SpecAgent /\ \A t \in {"t1"} : WF_vars(RunStep(t))

\* The price normalizer methods called with a price that stands for a daily
\* rate in one of the three periods.
PeriodDays(price_period) ==
    CASE price_period = "day" -> 1 [] price_period = "week" -> 7 [] OTHER -> 30

NextNormalizer ==
    \/ \E rate \in 0..MaxRate, p \in Periods, d \in 0..MaxDuration :
           CalculateListingTotal(rate * PeriodDays(p), p, d)
    \/ \E rate \in 0..MaxRate, p \in Periods, d \in 0..MaxDuration :
           CalculateUserTotal(rate * PeriodDays(p), p, d)

SpecNormalizer == InitAgent /\ [][NextNormalizer]_vars

\* Listing.calculate_total_cost_for_duration on listings whose price or
\* price_period may be unset, and on prices that are no whole daily rate
ListingPrices == {None, 0, 100, 150, 4500}
ListingPeriods == Periods \cup {"None"}

NextListingCost ==
    \E price \in ListingPrices, p \in ListingPeriods, d \in 0..MaxDuration :
        CalculateListingTotal(price, p, d)

SpecListingCost == InitAgent /\ [][NextListingCost]_vars

\* find_or_create_user called by two API requests at a time, for known and
\* unknown auth_user_ids
Callers == {"c1", "c2"}
AuthUserIds == {"None", "auth1", "auth2"}
FirstNames == {"Unknown", "Ann"}
RequestCredits == {MIN_CREDIT_THRESHOLD, 200000000}

InitAccounts ==
    /\ users = <<>>
    /\ evals = <<>>
    /\ run = [t \in {"t1"} |-> IdleRun]
    /\ submitted = 0
    /\ listings = Listings
    /\ job = IdleJob
    /\ calc = NoCalc
    /\ calls = [c \in Callers |-> IdleCall]
    /\ tasks = NoTasks

NextAccounts ==
    \/ \E c \in Callers, a \in AuthUserIds, n \in FirstNames, cr \in RequestCredits :
           FindOrCreateUser(c, a, n, cr)
    \/ \E c \in Callers : UpdateFoundUser(c)
    \/ \E c \in Callers : CreateUser(c)

SpecAccounts == InitAccounts /\ [][NextAccounts]_vars

\* update_user_preferences called again and again on a user that starts
\* with no preferences; a request sets prices and dates, leaves them unset
\* or sets one of them to None
RequestPrices == {None, 100, 300}
RequestMaxPrices == {None, 175}
RequestStarts == {None, Date(10), Date(30)}
RequestEnds == {None, Date(10), Date(24)}
RequestCleared == {{}, {"max_price"}, {"preferred_end_date"}}

PreferenceRequests ==
    { r \in { [PrefUpdate(mn, mx, "None", sd, ed, None, "None") EXCEPT !.cleared = c] :
                  mn \in RequestPrices, mx \in RequestMaxPrices,
                  sd \in RequestStarts, ed \in RequestEnds, c \in RequestCleared } :
          /\ ("max_price" \in r.cleared => r.max_price = None)
          /\ ("preferred_end_date" \in r.cleared => r.preferred_end_date = None) }

NextPreferences ==
    \E u \in Users, upd \in PreferenceRequests : UpdateUserPreferencesCall(u, upd)

SpecPreferences == InitAgent /\ [][NextPreferences]_vars

\* The candidate selector over a larger listing store, for users whose
\* preferences update_user_preferences accepts: a price range given as
\* daily rates in one of the periods, a stay, a flexibility and a type.
SelectorRates == {<<None, None>>, <<100, 175>>, <<None, 100>>, <<160, None>>}
SelectorStays == {<<None, None>>, <<Date(10), Date(24)>>, <<Date(10), Noon(10)>>}
SelectorFlex == {0, 2, 5}
SelectorTypes == {"None", "sublet"}
SelectorLimits == {1, 100}

PriceOf(rate, price_period) == IF rate = None THEN None ELSE rate * PeriodDays(price_period)

SelectorProfiles ==
    { [NewUser(MIN_CREDIT_THRESHOLD) EXCEPT
          !.min_price = PriceOf(r[1], p), !.max_price = PriceOf(r[2], p),
          !.price_period = p,
          !.preferred_start_date = s[1], !.preferred_end_date = s[2],
          !.date_flexibility_days = f, !.preferred_listing_type = ty] :
      r \in SelectorRates, p \in Periods, s \in SelectorStays,
      f \in SelectorFlex, ty \in SelectorTypes }

InitSelector ==
    /\ users \in [Users -> SelectorProfiles]
    /\ evals = <<>>
    /\ run = [t \in {"t1"} |-> IdleRun]
    /\ submitted = 0
    /\ listings = 1..MaxCatalogue
    /\ job = IdleJob
    /\ calc = NoCalc
    /\ calls = NoCalls
    /\ tasks = NoTasks

NextSelector ==
    \/ \E t \in DOMAIN run, u \in Users, limit \in SelectorLimits : GetCandidates(t, u, limit)
    \/ \E t \in DOMAIN run, u \in Users : FindAndEvaluateListings(t, u, 1, 400000)
    \/ \E t \in DOMAIN run, e \in EvaluationResults : EvaluateListing(t, e.score, e.cost_usd)
    \/ \E t \in DOMAIN run : ReturnStats(t)

SpecSelector == InitSelector /\ [][NextSelector]_vars

\* The scheduled evaluation: the coordinator sends one task per eligible
\* user and two workers run them; no exception leaves a task.
TwoUsers == {"u1", "u2"}
Profiles == {"None", "Looking for apartments"}
RecommendationLimits == {1, 20}

InitDispatch ==
    /\ users \in [TwoUsers ->
                   {[NewUser(c) EXCEPT !.preference_profile = p] :
                        c \in {50000000, MIN_CREDIT_THRESHOLD}, p \in Profiles}]
    /\ evals = <<>>
    /\ run = [t \in Tasks |-> IdleRun]
    /\ submitted = 0
    /\ listings = Listings
    /\ job = IdleJob
    /\ calc = NoCalc
    /\ calls = NoCalls
    /\ tasks = NoTasks

NextDispatch ==
    \/ JobCount
    \/ JobQuery
    \/ \E u \in DOMAIN users : JobSend(u)
    \/ \E u \in DOMAIN users : JobSendFails(u)
    \/ JobReturn
    \/ \E t \in DOMAIN run : Deliver(t)
    \/ \E t \in DOMAIN run : Start(t)
    \/ \E t \in DOMAIN run : BudgetStop(t)
    \/ \E t \in DOMAIN run, e \in EvaluationResults : EvaluateListing(t, e.score, e.cost_usd)
    \/ \E t \in DOMAIN run : Finish(t)
    \/ \E t \in DOMAIN run, u \in DOMAIN users, limit \in RecommendationLimits :
           GetRecommendations(t, u, limit)

SpecDispatch == InitDispatch /\ [][NextDispatch]_vars

\* The coordinator alone, while users edit their profile text between its
\* two queries and its sends.
ThreeUsers == {"u1", "u2", "u3"}

InitCoordinator ==
    /\ users \in [ThreeUsers ->
                   {[NewUser(c) EXCEPT !.preference_profile = p] :
                        c \in {50000000, MIN_CREDIT_THRESHOLD}, p \in Profiles}]
    /\ evals = <<>>
    /\ run = [t \in Tasks |-> IdleRun]
    /\ submitted = 0
    /\ listings = Listings
    /\ job = IdleJob
    /\ calc = NoCalc
    /\ calls = NoCalls
    /\ tasks = NoTasks

NextCoordinator ==
    \/ \E u \in DOMAIN users, p \in Profiles : UpdatePreferenceProfile(u, p)
    \/ JobCount
    \/ JobQuery
    \/ \E u \in DOMAIN users : JobSend(u)
    \/ \E u \in DOMAIN users : JobSendFails(u)
    \/ JobReturn

SpecCoordinator == InitCoordinator /\ [][NextCoordinator]_vars

\* The task table: jobs are scheduled, sent to the broker and processed by one
\* worker; an evaluate_listings task runs the coordinator as its handler.
InitScheduler == InitDispatch

NextScheduler ==
    \/ \E job_type \in JobTypes : ScheduleJob(job_type)
    \/ \E task_id \in DOMAIN tasks.rows : SendTask(task_id)
    \/ \E task_id \in DOMAIN tasks.rows : SendTaskFails(task_id)
    \/ \E task_id \in DOMAIN tasks.rows : ProcessTask(task_id)
    \/ HandlerRunning("evaluate_listings") /\ JobCount
    \/ HandlerRunning("evaluate_listings") /\ JobQuery
    \/ \E u \in DOMAIN users : HandlerRunning("evaluate_listings") /\ JobSend(u)
    \/ \E u \in DOMAIN users : HandlerRunning("evaluate_listings") /\ JobSendFails(u)
    \/ HandlerRunning("evaluate_listings") /\ JobReturn
    \/ CompleteEvaluateListings
    \/ \E result \in SyncOutcomes : CompleteSyncListings(result)
    \/ \E exc \in HandlerErrors : HandlerRaises(exc)

SpecScheduler == InitScheduler /\ [][NextScheduler]_vars

\* ================================================================ claims
RunningOrDone(t) == run[t].pc \in {"loop", "finish", "done"}

\* cost_usd summed over the rows this attempt of t committed
StoredCost(t) == SumSeq([i \in 1..Len(run[t].stored) |-> evals[run[t].stored[i]].cost_usd])

Succeeded(t) == run[t].pc = "done" /\ run[t].result.returned /\ run[t].result.success

\* C1: in one find_and_evaluate_listings run the costs of the evaluations
\* performed add up to at most max_cost.
C1_CostWithinBudget ==
    \A t \in DOMAIN run : RunningOrDone(t) => run[t].total_cost <= run[t].max_cost

\* C2: the evaluation store never holds two rows for one (user, listing).
C2_OneRowPerPair ==
    \A u \in DOMAIN users, l \in Listings : Cardinality(RowsFor(u, l)) <= 1

\* C3: a listing that has an evaluation for a user is in no candidate list
\* of that user, for any limit and whatever the user's filters now are.
C3_EvaluatedNeverCandidate ==
    \A u \in DOMAIN users, l \in Listings :
        RowsFor(u, l) # {} =>
            \A limit \in 0..MaxListings :
                LET c == GetCandidateListings(u, limit)
                IN  \A i \in 1..Len(c) : c[i] # l

\* an evaluated listing that the changed filters alone would let through
C3_Witness ==
    \E u \in DOMAIN users, l \in Listings :
        /\ RowsFor(u, l) # {}
        /\ users[u].preference_version > 1
        /\ PriceOk(users[u], Listing(l)) /\ DateOk(users[u], Listing(l)) /\ TypeOk(users[u], Listing(l))
        /\ \E t \in DOMAIN run : run[t].retries = 0 /\ run[t].pc = "loop" /\ run[t].stored = <<>>

\* C4: while a run is scoring, the user's balance is already reduced by
\* the cost of every evaluation the run has committed.
C4_BilledWithEachRow ==
    \A t \in DOMAIN run :
        run[t].pc \in {"loop", "finish"} =>
            users[run[t].user_id].evaluation_credits = run[t].max_cost - StoredCost(t)

\* C5: evaluation_credits is never negative.
C5_CreditsNonNegative ==
    \A u \in DOMAIN users : users[u].evaluation_credits >= 0

\* C6: a retry never sends to the Evaluator a listing whose evaluation an
\* earlier attempt of the same task committed.
C6_NoRescoreOnRetry ==
    [][\A t \in DOMAIN run :
          (InLoop(t) /\ run'[t].idx = run[t].idx + 1) =>
              /\ run[t].candidates[run[t].idx] \notin run[t].prior
              /\ \A i \in 1..Len(run[t].stored) :
                     evals[run[t].stored[i]].listing_id # run[t].candidates[run[t].idx]]_vars

\* a retry that scores a listing after an earlier attempt committed another
C6_Witness ==
    \E t \in DOMAIN run :
        run[t].retries >= 1 /\ run[t].prior # {} /\ run[t].last = "stored"

\* C7: below the threshold the task returns "Insufficient credits" and
\* touches nothing; at the threshold it is not rejected.
C7_InsufficientCredits ==
    [][\A t \in DOMAIN run :
          (run[t].pc = "queued" /\ run'[t] # run[t] /\ run[t].user_id \in DOMAIN users) =>
              LET credits == users[run[t].user_id].evaluation_credits
                  res     == run'[t].result
              IN  /\ credits < MIN_CREDIT_THRESHOLD =>
                        /\ run'[t].pc = "done"
                        /\ res.returned /\ ~res.success /\ res.error = "Insufficient credits"
                        /\ run'[t].idx = 1 /\ run'[t].evaluations = <<>>
                        /\ run'[t].last = "none"
                        /\ evals' = evals
                        /\ users' = users
                  /\ credits >= MIN_CREDIT_THRESHOLD =>
                        res.error # "Insufficient credits"]_vars

C7_Witness ==
    \E t \in DOMAIN run :
        /\ run[t].pc = "done" /\ run[t].result.error = "Insufficient credits"
        /\ run[t].user_id \in DOMAIN users
        /\ users[run[t].user_id].evaluation_credits < MIN_CREDIT_THRESHOLD
        /\ users[run[t].user_id].evaluation_credits > 0

\* C8: when the Evaluator raises for a candidate, error_count grows by one,
\* nothing is stored and the loop goes on with the next candidate; the loop
\* ends only when the candidates are used up or the budget check stops it.
C8_EvaluatorErrorSkips ==
    /\ [][\A t \in DOMAIN run :
            (InLoop(t) /\ run'[t] # run[t] /\ run'[t].last = "evaluator_raised") =>
                /\ run'[t].error_count = run[t].error_count + 1
                /\ run'[t].completed = run[t].completed
                /\ run'[t].total_cost = run[t].total_cost
                /\ evals' = evals
                /\ run'[t].candidates = run[t].candidates
                /\ run'[t].idx = run[t].idx + 1
                /\ run'[t].pc = IF run'[t].idx <= Len(run[t].candidates) THEN "loop" ELSE "finish"]_vars
    /\ [](\A t \in DOMAIN run :
            run[t].pc = "finish" =>
                \/ run[t].idx > Len(run[t].candidates)
                \/ (run[t].budget_exceeded /\ run[t].total_cost >= run[t].max_cost))

\* the Evaluator raised for one candidate and a later one was stored
C8_Witness ==
    \E t \in DOMAIN run :
        /\ run[t].error_count = 1 /\ run[t].completed = 1
        /\ Len(run[t].evaluations) = 1
        /\ run[t].last = "stored"
        /\ run[t].result.returned /\ run[t].result.success

\* C9: the task is queued again only after a transient exception and at
\* most MAX_RETRIES times; a validation-class exception returns the
\* "Permanent error" result without a retry, and a transient one never does.
C9_RetryPolicy ==
    /\ [][\A t \in DOMAIN run :
            /\ (run[t].pc \in {"queued", "loop", "finish"} /\ run'[t].pc = "queued"
                    /\ run'[t] # run[t]) =>
                   /\ run'[t].exc \in {"ConnectionError", "TimeoutError", "SQLAlchemyError"}
                   /\ run'[t].retries = run[t].retries + 1
                   /\ run'[t].user_id = run[t].user_id
            /\ (run[t].pc \in {"queued", "loop", "finish"} /\ run'[t] # run[t]
                    /\ run'[t].exc \in {"ValueError", "KeyError", "AttributeError"}) =>
                   /\ run'[t].pc = "done"
                   /\ run'[t].retries = run[t].retries
                   /\ run'[t].result.returned /\ ~run'[t].result.success
                   /\ run'[t].result.error = "Permanent error"]_vars
    /\ [](\A t \in DOMAIN run :
            /\ run[t].retries <= MAX_RETRIES
            /\ (run[t].pc = "done" /\ run[t].exc \in {"ConnectionError", "TimeoutError", "SQLAlchemyError"}) =>
                   (~run[t].result.returned /\ run[t].retries = MAX_RETRIES))

\* the third attempt failed with a transient exception: the task fails
C9_Witness ==
    \E t \in DOMAIN run :
        /\ run[t].pc = "done" /\ run[t].retries = MAX_RETRIES
        /\ run[t].exc = "SQLAlchemyError" /\ ~run[t].result.returned

\* C10: after a successful run the persisted balance is the starting
\* balance minus total_cost, remaining_credits is that balance, and
\* total_cost is the summed cost of the evaluations the run completed.
C10_CreditAccounting ==
    \A t \in DOMAIN run :
        Succeeded(t) =>
            /\ users[run[t].user_id].evaluation_credits = run[t].max_cost - run[t].result.total_cost
            /\ run[t].result.remaining_credits = users[run[t].user_id].evaluation_credits
            /\ run[t].result.total_cost = StoredCost(t)

\* the loop left candidates unscored because the budget check stopped it
StoppedByBudget(r) ==
    /\ r.last = "budget_stop"
    /\ r.idx <= Len(r.candidates)
    /\ r.total_cost >= r.max_cost

\* C11 (as claimed): budget_exceeded is true exactly when the loop stopped
\* early, candidates left, because total_cost had reached max_cost.
C11_BudgetExceededIffStopped ==
    \A t \in DOMAIN run :
        (run[t].pc = "done" /\ run[t].result.returned) =>
            (run[t].budget_exceeded <=> StoppedByBudget(run[t]))

\* C11 (amended): budget_exceeded is true exactly when the pre-flight
\* estimate for the fetched candidates exceeded max_cost, or the loop
\* stopped early because total_cost had reached max_cost.
C11_BudgetExceededIffTrimmedOrStopped ==
    \A t \in DOMAIN run :
        (run[t].pc = "done" /\ run[t].result.returned) =>
            (run[t].budget_exceeded <=>
                \/ (run[t].found > 0 /\ EstimateEvaluationCost(run[t].found) > run[t].max_cost)
                \/ StoppedByBudget(run[t]))

\* a trimmed run that scored every candidate it kept, below the cap
C11_Witness ==
    \E t \in DOMAIN run :
        /\ run[t].pc = "done" /\ run[t].result.returned
        /\ run[t].budget_exceeded
        /\ run[t].found > Len(run[t].candidates)
        /\ run[t].completed = Len(run[t].candidates) /\ run[t].completed >= 1
        /\ run[t].total_cost < run[t].max_cost

\* scores of the rows this attempt of t committed
StoredScores(t) == [i \in 1..Len(run[t].stored) |-> evals[run[t].stored[i]].score]

\* C12: average_score is the mean of the scores of the evaluations counted
\* in evaluations_completed, and 0 when that count is 0.
C12_AverageOfCompleted ==
    \A t \in DOMAIN run :
        (run[t].pc = "done" /\ run[t].result.returned /\ run[t].result.success) =>
            /\ run[t].completed = Len(run[t].stored)
            /\ run[t].average_score = AverageScore(StoredScores(t))
            /\ run[t].completed = 0 => run[t].average_score = 0

Abs(x) == IF x < 0 THEN 0 - x ELSE x

\* what the called method returns for the same daily rate given in period q
SameRateTotal(q) ==
    LET price == (calc.price \div PeriodDays(calc.price_period)) * PeriodDays(q)
    IN  IF calc.method = "User._calculate_total_cost"
        THEN CalculateTotalCost(q, price, calc.duration_days)
        ELSE CalculateTotalCostForDuration(price, q, calc.duration_days)

\* C13: for one duration, the totals of (r, day), (7r, week) and (30r, month)
\* differ by less than 0.01, for Listing.calculate_total_cost_for_duration
\* and for User._calculate_total_cost.
C13_PriceEquivalence ==
    calc.method # "none" =>
        \A q \in Periods : Abs(calc.total - SameRateTotal(q)) * 100 < CostUnit

\* a weekly price over a stay that is not a whole number of weeks
C13_Witness ==
    /\ calc.method = "Listing.calculate_total_cost_for_duration"
    /\ calc.price_period = "week" /\ calc.price = 7 * 3
    /\ calc.duration_days = 5
    /\ calc.total = 3 * 5 * CostUnit

\* ------------------------------------------------ candidate selector claims
\* a direct call of _get_candidate_listings has just returned to slot t
SelectorReturned(t) == run[t].last = "candidates_returned"

CandidateSet(t) == {run[t].candidates[i] : i \in 1..Len(run[t].candidates)}

BothDates(usr) == usr.preferred_start_date # None /\ usr.preferred_end_date # None

Min(a, b) == IF a <= b THEN a ELSE b

\* round(x, 2) of an exact total, in cents
RoundCents(x) == RoundDiv(x * 100, CostUnit)

\* the listing's own price and period converted to a total for d days lies
\* within the user's bounds; an unset user price leaves its side open, and
\* a listing without a price has no total to lie within a bound
TotalInBounds(usr, l, d) ==
    LET total == RoundCents(CalculateTotalCostForDuration(l.price, l.price_period, d))
    IN  /\ usr.min_price # None =>
               /\ l.price # None
               /\ total >= RoundCents(CalculateTotalCost(usr.price_period, usr.min_price, d))
        /\ usr.max_price # None =>
               /\ l.price # None
               /\ total <= RoundCents(CalculateTotalCost(usr.price_period, usr.max_price, d))

\* unevaluated listings that meet the price bounds, the date and the type rule
Qualifying(usr, u, d) ==
    {l \in listings : /\ RowsFor(u, l) = {}
                      /\ TotalInBounds(usr, Listing(l), d)
                      /\ DateOk(usr, Listing(l))
                      /\ TypeOk(usr, Listing(l))}

\* what C14 says of one returned call
PriceBoundsFilter(t) ==
    LET u   == run[t].user_id
        usr == users[u]
        d   == StayDuration(usr)
    IN  /\ \A l \in CandidateSet(t) : TotalInBounds(usr, Listing(l), d)
        /\ CandidateSet(t) \subseteq Qualifying(usr, u, d)
        /\ Len(run[t].candidates) = Min(run[t].limit, Cardinality(Qualifying(usr, u, d)))

\* C14 (as claimed): for a user with both preferred dates set the
\* candidates are the unevaluated listings whose total cost for the stay
\* lies within [min_total_cost, max_total_cost] and that meet the date and
\* type rules, up to the limit.
C14_PriceBoundsFilter ==
    \A t \in DOMAIN run :
        (SelectorReturned(t) /\ BothDates(users[run[t].user_id])) => PriceBoundsFilter(t)

\* C14 (amended): the same for a user whose two preferred dates are at
\* least one whole day apart.
C14_PriceBoundsFilterWholeDays ==
    \A t \in DOMAIN run :
        (/\ SelectorReturned(t)
         /\ BothDates(users[run[t].user_id])
         /\ StayDuration(users[run[t].user_id]) >= 1) => PriceBoundsFilter(t)

\* a weekly-priced user over 14 days: the monthly listing is in, the dearer
\* daily one and the one without a price are out
C14_Witness ==
    \E t \in DOMAIN run :
        /\ SelectorReturned(t) /\ run[t].limit = 100
        /\ StayDuration(users[run[t].user_id]) = 14
        /\ users[run[t].user_id].price_period = "week"
        /\ users[run[t].user_id].min_price = 700 /\ users[run[t].user_id].max_price = 1225
        /\ 5 \in CandidateSet(t) /\ 3 \notin CandidateSet(t) /\ 4 \notin CandidateSet(t)

\* the same price in period q: a user row that differs only in how the
\* rate is written
SamePrice(price, from, q) ==
    IF price = None THEN None ELSE (price \div PeriodDays(from)) * PeriodDays(q)

EquivalentUser(usr, q) ==
    [usr EXCEPT !.price_period = q,
                !.min_price = SamePrice(usr.min_price, usr.price_period, q),
                !.max_price = SamePrice(usr.max_price, usr.price_period, q)]

SameCandidatesInEveryPeriod(t) ==
    \A q \in Periods :
        run[t].candidates =
            SelectCandidates(EquivalentUser(users[run[t].user_id], q), run[t].user_id, run[t].limit)

\* C15 (as claimed): users that differ only in the period their price range
\* is written in get the same candidates.
C15_CrossPeriodConsistency ==
    \A t \in DOMAIN run : SelectorReturned(t) => SameCandidatesInEveryPeriod(t)

\* C15 (amended): the same for users whose two preferred dates are set and
\* at least one whole day apart.
C15_CrossPeriodConsistencyWholeDays ==
    \A t \in DOMAIN run :
        (/\ SelectorReturned(t)
         /\ BothDates(users[run[t].user_id])
         /\ StayDuration(users[run[t].user_id]) >= 1) => SameCandidatesInEveryPeriod(t)

\* a monthly-priced user over 14 days with a flexible stay: the weekly
\* listing at the user's maximum rate is in, the dearer ones are out
C15_Witness ==
    \E t \in DOMAIN run :
        /\ SelectorReturned(t) /\ run[t].limit = 100
        /\ StayDuration(users[run[t].user_id]) = 14
        /\ users[run[t].user_id].price_period = "month"
        /\ users[run[t].user_id].min_price = None /\ users[run[t].user_id].max_price = 3000
        /\ CandidateSet(t) = {6}

\* the user row with another flexibility
WithFlex(usr, flex) == [usr EXCEPT !.date_flexibility_days = flex]

\* every listing the query matches for usr, no limit applied
AllCandidates(usr, u) ==
    LET c == SelectCandidates(usr, u, Cardinality(listings))
    IN  {c[i] : i \in 1..Len(c)}

\* C16: with both preferred dates set, a returned listing starts no later
\* than preferred_start_date + flex and ends no earlier than
\* preferred_end_date - flex; a larger flex gives a superset of candidates
\* and a smaller one a subset, before the limit.
C16_DateFlexibility ==
    \A t \in DOMAIN run :
        (SelectorReturned(t) /\ BothDates(users[run[t].user_id])) =>
            LET u   == run[t].user_id
                usr == users[u]
            IN  /\ \A l \in CandidateSet(t) :
                       /\ Listing(l).start_date # None /\ Listing(l).end_date # None
                       /\ Listing(l).start_date
                              <= usr.preferred_start_date + 2 * usr.date_flexibility_days
                       /\ Listing(l).end_date
                              >= usr.preferred_end_date - 2 * usr.date_flexibility_days
                /\ run[t].limit >= Cardinality(listings) =>
                       /\ \A more \in 1..5 :
                              CandidateSet(t) \subseteq
                                  AllCandidates(WithFlex(usr, usr.date_flexibility_days + more), u)
                       /\ \A less \in 1..usr.date_flexibility_days :
                              AllCandidates(WithFlex(usr, usr.date_flexibility_days - less), u)
                                  \subseteq CandidateSet(t)

\* flexibility 5 lets in a listing that no flexibility would
C16_Witness ==
    \E t \in DOMAIN run :
        /\ SelectorReturned(t) /\ run[t].limit = 100
        /\ BothDates(users[run[t].user_id])
        /\ users[run[t].user_id].date_flexibility_days = 5
        /\ 6 \in CandidateSet(t)
        /\ 6 \notin AllCandidates(WithFlex(users[run[t].user_id], 0), run[t].user_id)
        /\ 2 \in AllCandidates(WithFlex(users[run[t].user_id], 0), run[t].user_id)

\* an unevaluated listing in the store that passes the price and type filters of usr
PassesOtherFilters(usr, u, l) ==
    /\ l \in listings
    /\ RowsFor(u, l) = {}
    /\ PriceOk(usr, Listing(l))
    /\ TypeOk(usr, Listing(l))

StartsFourDaysBefore(usr, l) ==
    Listing(l).start_date # None /\ Listing(l).start_date = usr.preferred_start_date - Timedelta(4)

EndsFourDaysBefore(usr, l) ==
    Listing(l).end_date # None /\ Listing(l).end_date = usr.preferred_end_date - Timedelta(4)

\* excluded without flexibility, included with 5 days of it
ExcludedAtZeroIncludedAtFive(t, l) ==
    /\ users[run[t].user_id].date_flexibility_days = 0 => l \notin CandidateSet(t)
    /\ users[run[t].user_id].date_flexibility_days = 5 => l \in CandidateSet(t)

\* C17 (as claimed): a listing that starts 4 days before the preferred
\* start date is excluded when date_flexibility_days = 0 and included when
\* it is 5.
C17_FourDaysBeforeStart ==
    \A t \in DOMAIN run :
        (SelectorReturned(t) /\ run[t].limit = 100 /\ BothDates(users[run[t].user_id])) =>
            \A l \in listings :
                (/\ PassesOtherFilters(users[run[t].user_id], run[t].user_id, l)
                 /\ StartsFourDaysBefore(users[run[t].user_id], l)) =>
                    ExcludedAtZeroIncludedAtFive(t, l)

\* C17 (amended): a listing that starts 4 days before the preferred start
\* date and ends 4 days before the preferred end date is excluded when
\* date_flexibility_days = 0 and included when it is 5.
C17_FourDaysBeforeStartAndEnd ==
    \A t \in DOMAIN run :
        (SelectorReturned(t) /\ run[t].limit = 100 /\ BothDates(users[run[t].user_id])) =>
            \A l \in listings :
                (/\ PassesOtherFilters(users[run[t].user_id], run[t].user_id, l)
                 /\ StartsFourDaysBefore(users[run[t].user_id], l)
                 /\ EndsFourDaysBefore(users[run[t].user_id], l)) =>
                    ExcludedAtZeroIncludedAtFive(t, l)

\* the call with 5 days of flexibility returns such a listing
C17_Witness ==
    \E t \in DOMAIN run, l \in listings :
        /\ SelectorReturned(t) /\ run[t].limit = 100
        /\ users[run[t].user_id].date_flexibility_days = 5
        /\ BothDates(users[run[t].user_id])
        /\ PassesOtherFilters(users[run[t].user_id], run[t].user_id, l)
        /\ StartsFourDaysBefore(users[run[t].user_id], l)
        /\ EndsFourDaysBefore(users[run[t].user_id], l)
        /\ l \in CandidateSet(t)

\* the call of get_recommendations in slot t has returned
RecommendationsReturned(t) == run[t].last = "recommendations_returned"

\* what the caller can see of the list slot t holds: length, owner, order
\* and the rows left out
RecommendationsOk(t) ==
    LET recs == run[t].recommendations
        u    == run[t].user_id
        mine == {i \in 1..Len(evals) : evals[i].user_id = u}
        got  == {recs[k] : k \in 1..Len(recs)}
    IN  /\ Len(recs) <= run[t].limit
        /\ Len(recs) = Min(run[t].limit, Cardinality(mine))
        /\ Cardinality(got) = Len(recs)
        /\ got \subseteq mine
        /\ \A k, m \in 1..Len(recs) :
               k < m => \/ evals[recs[k]].score > evals[recs[m]].score
                        \/ /\ evals[recs[k]].score = evals[recs[m]].score
                           /\ recs[k] > recs[m]
        /\ \A i \in mine \ got :
               \A k \in 1..Len(recs) : evals[i].score <= evals[recs[k]].score

\* C18: when get_recommendations(user, limit) returns, it returns at most
\* limit pairs, all of that user, in non-increasing score order with equal
\* scores most recent first, and no pair left out has a higher score than a
\* pair returned.
C18_RecommendationsOrdered ==
    [][\A t \in DOMAIN run :
          (RecommendationsReturned(t)' /\ run'[t] # run[t]) => RecommendationsOk(t)']_vars

\* for one user with two rows of equal score, one call returned both and a
\* call with limit 1 returned one, while the other user has rows too
C18_Witness ==
    \E t1, t2 \in DOMAIN run :
        /\ t1 # t2
        /\ RecommendationsReturned(t1) /\ RecommendationsReturned(t2)
        /\ run[t1].user_id = run[t2].user_id
        /\ run[t1].limit = 1 /\ Len(run[t1].recommendations) = 1
        /\ Len(run[t2].recommendations) = 2
        /\ evals[run[t2].recommendations[1]].score = evals[run[t2].recommendations[2]].score
        /\ \E i \in 1..Len(evals) : evals[i].user_id # run[t1].user_id

\* the users with a profile text and at least the minimum credits, read
\* from the user rows
WithProfileAndCredits ==
    {u \in DOMAIN users : /\ users[u].preference_profile # "None"
                          /\ users[u].evaluation_credits >= MIN_CREDIT_THRESHOLD}

SentUsers == {job.sent[k] : k \in 1..Len(job.sent)}

\* one step of handle_evaluate_listings does what the claim says of it
CoordinatorStep ==
    /\ (job.pc = "idle" /\ job'.pc # "idle") =>
           IF WithProfileAndCredits = {}
           THEN /\ job'.result = [returned |-> TRUE, users_found |-> 0, tasks_created |-> 0]
                /\ job'.sent = <<>>
           ELSE /\ job'.pc = "query"
                /\ job'.users_found = Cardinality(WithProfileAndCredits)
    /\ (job.pc = "query" /\ job'.pc # "query") =>
           /\ job'.eligible = WithProfileAndCredits
           /\ job'.pending = WithProfileAndCredits
           /\ job'.sent = <<>>
    /\ (job.pc = "send" /\ job' # job) =>
           \/ /\ job.pending = {}
              /\ job'.result = [returned |-> TRUE, users_found |-> job.users_found,
                                tasks_created |-> Len(job.sent)]
              /\ job'.sent = job.sent
           \/ \E u \in job.pending :
                 /\ job'.pending = job.pending \ {u}
                 /\ job'.pc = "send"
                 /\ \/ job'.sent = Append(job.sent, u) /\ job'.failed = job.failed
                    \/ job'.sent = job.sent /\ job'.failed = job.failed \cup {u}

\* what handle_evaluate_listings has done when it returns
CoordinatorDone ==
    job.result.returned =>
        /\ Cardinality(SentUsers) = Len(job.sent)
        /\ SentUsers \cap job.failed = {}
        /\ SentUsers \cup job.failed = job.eligible
        /\ job.result.tasks_created = Len(job.sent)
        /\ job.result.users_found = job.users_found

\* C19: handle_evaluate_listings sends exactly one evaluate_user_listings
\* task for each user that has a preference_profile and evaluation_credits
\* >= MIN_CREDIT_THRESHOLD and none for any other user; a send that fails
\* does not stop the sends for the remaining users; tasks_created is the
\* number of sends that succeeded and users_found the number of eligible
\* users.
C19_OneTaskPerEligibleUser == []CoordinatorDone /\ [][CoordinatorStep]_vars

\* three eligible users, one send failed, two tasks were sent
C19_Witness ==
    /\ job.result.returned
    /\ job.result.users_found = 3
    /\ job.result.tasks_created = 2
    /\ Cardinality(job.failed) = 1
    /\ Len(job.sent) = 2

\* the rows of user u, oldest first
RECURSIVE RowsOf(_, _)
RowsOf(rows, u) ==
    IF rows = <<>> THEN <<>>
    ELSE IF rows[1].user_id = u THEN <<rows[1]>> \o RowsOf(Tail(rows), u)
    ELSE RowsOf(Tail(rows), u)

\* the rows the run in slot t has stored
StoredRows(t) == [k \in 1..Len(run[t].stored) |-> evals[run[t].stored[k]]]

\* the candidates a run of user u fetches when no other run exists: u has no
\* row yet, so the filters of u alone decide
CandidatesAlone(u) ==
    Take(DescSeq({l \in listings : /\ PriceOk(users[u], Listing(l))
                                   /\ DateOk(users[u], Listing(l))
                                   /\ TypeOk(users[u], Listing(l))}),
         DEFAULT_MAX_EVALUATIONS)

\* slot t holds an evaluate_user_listings run that is past its candidate
\* query
Evaluating(t) == run[t].pc \in {"loop", "finish"} \/ Succeeded(t)

\* a step writes only rows of the user whose run takes it, and changes only
\* the evaluation_credits of the user whose run finishes
RunFrame ==
    /\ evals' # evals =>
           \E t \in DOMAIN run :
               /\ InLoop(t)
               /\ run'[t] # run[t]
               /\ Len(evals') = Len(evals) + 1
               /\ SubSeq(evals', 1, Len(evals)) = evals
               /\ evals'[Len(evals')].user_id = run[t].user_id
    /\ \A u \in DOMAIN users :
           users'[u] # users[u] =>
               /\ \E t \in DOMAIN run :
                      run[t].pc = "finish" /\ run[t].user_id = u /\ run'[t] # run[t]
               /\ users'[u] = [users[u] EXCEPT
                                 !.evaluation_credits = users'[u].evaluation_credits]

\* the run in slot t has the candidates, rows and balance it would have had
\* with no other user's run beside it
AsIfAlone(t) ==
    LET r == run[t]
        u == r.user_id
    IN  /\ r.found = Len(CandidatesAlone(u))
        /\ r.candidates = CandidatesAlone(u)
        /\ RowsOf(evals, u) = StoredRows(t)
        /\ \A k \in 1..Len(r.stored) : evals[r.stored[k]].listing_id = r.candidates[k]
        /\ IF Succeeded(t)
           THEN /\ users[u].evaluation_credits = r.max_cost - r.result.total_cost
                /\ r.result.remaining_credits = users[u].evaluation_credits
           ELSE users[u].evaluation_credits = r.max_cost

\* C20: a run of evaluate_user_listings for user A writes only rows with
\* user_id = A and changes only A's evaluation_credits; however the runs of
\* two different users interleave, each user's rows and credits are those of
\* the run executed with no other run beside it.
C20_RunsOfDifferentUsersIndependent ==
    /\ [][RunFrame]_vars
    /\ [](\A t \in DOMAIN run : Evaluating(t) => AsIfAlone(t))

\* the runs of two users have finished after storing their rows in turns
C20_Witness ==
    \E t1, t2 \in DOMAIN run :
        /\ Succeeded(t1) /\ Succeeded(t2)
        /\ run[t1].user_id # run[t2].user_id
        /\ run[t1].result.total_cost > 0 /\ run[t2].result.total_cost > 0
        /\ Len(evals) >= 3
        /\ evals[1].user_id # evals[2].user_id
        /\ evals[2].user_id # evals[3].user_id

\* --------------------------------------------------- listing cost claims
\* C21: calculate_total_cost_for_duration returns 0.0 when the listing's
\* price or price_period is unset, for every duration; for a set price and
\* period it returns price*d (day), price*d/7 (week) or price*d/30 (month).
C21_ListingTotalCost ==
    calc.method = "Listing.calculate_total_cost_for_duration" =>
        IF calc.price = None \/ calc.price_period = "None"
        THEN calc.total = 0
        ELSE CASE calc.price_period = "day" ->
                      calc.total = calc.price * calc.duration_days * CostUnit
               [] calc.price_period = "week" ->
                      calc.total * 7 = calc.price * calc.duration_days * CostUnit
               [] calc.price_period = "month" ->
                      calc.total * 30 = calc.price * calc.duration_days * CostUnit

\* a listing without a price, asked for a stay of several days
C21_Witness ==
    /\ calc.method = "Listing.calculate_total_cost_for_duration"
    /\ calc.price = None /\ calc.price_period = "day"
    /\ calc.duration_days = 5
    /\ calc.total = 0

\* ------------------------------------------------ user preference claims
PreferencesCalled == calc.method = "UserService.update_user_preferences"

\* the update's value where it gives one, otherwise the stored one
MergedValue(given, stored) == IF given = None THEN stored ELSE given

\* the merged prices or the merged dates of the last call are out of order
MergedInvalid ==
    LET mn == MergedValue(calc.updates.min_price, calc.before.min_price)
        mx == MergedValue(calc.updates.max_price, calc.before.max_price)
        sd == MergedValue(calc.updates.preferred_start_date, calc.before.preferred_start_date)
        ed == MergedValue(calc.updates.preferred_end_date, calc.before.preferred_end_date)
    IN  \/ (mn # None /\ mx # None /\ mn > mx)
        \/ (sd # None /\ ed # None /\ sd >= ed)

\* the numeric fields a request can carry
NumericFields ==
    {"min_price", "max_price", "preferred_start_date", "preferred_end_date",
     "date_flexibility_days"}

\* the row after a successful call has the provided fields of the request
\* and the stored value of every other field
ExactlyProvidedApplied ==
    LET now == users[calc.user_id]
    IN  /\ \A f \in NumericFields :
               now[f] = IF f \in calc.updates.cleared THEN None
                        ELSE IF calc.updates[f] # None THEN calc.updates[f]
                        ELSE calc.before[f]
        /\ \A f \in {"price_period", "preferred_listing_type"} :
               now[f] = IF calc.updates[f] # "None" THEN calc.updates[f] ELSE calc.before[f]
        /\ now.preference_profile = calc.before.preference_profile
        /\ now.evaluation_credits = calc.before.evaluation_credits

\* C22: update_user_preferences returns Failure and leaves every field of
\* the user unchanged, preference_version and last_preference_update
\* included, when the merged values have min_price > max_price or
\* preferred_start_date >= preferred_end_date; on Success it applies exactly
\* the provided fields and increases preference_version by exactly 1.
C22_UpdatePreferences ==
    PreferencesCalled =>
        /\ MergedInvalid => (calc.result = "Failure" /\ users[calc.user_id] = calc.before)
        /\ calc.result = "Success" =>
               /\ ExactlyProvidedApplied
               /\ users[calc.user_id].preference_version = calc.before.preference_version + 1

\* a request that gives only min_price fails against the stored max_price
\* of an earlier successful update
C22_Witness ==
    /\ PreferencesCalled
    /\ calc.result = "Failure"
    /\ calc.updates.min_price = 300 /\ calc.updates.max_price = None
    /\ calc.updates.cleared = {}
    /\ calc.before.max_price = 175
    /\ calc.before.preference_version = 2
    /\ calc.before.last_preference_update = 1
    /\ users[calc.user_id] = calc.before

\* ---------------------------------------------------- user account claims
\* the positions of the users that carry auth_user_id a
UsersOf(a) == {i \in DOMAIN users : users[i].auth_user_id = a}

\* a call made for an auth_user_id that has a user is bound to that user,
\* and when it returns it has returned that user, created none and left
\* its evaluation_credits as they were
ExistingUserKept ==
    \A c \in Callers :
        /\ (calls[c].pc \in {"idle", "done"} /\ calls'[c].pc \notin {"idle", "done"}
                /\ UsersOf(calls'[c].auth_user_id) # {}) =>
               /\ calls'[c].pc = "found"
               /\ calls'[c].found \in UsersOf(calls'[c].auth_user_id)
        /\ (calls[c].pc = "found" /\ calls'[c].pc = "done") =>
               /\ calls'[c].returned = calls[c].found
               /\ calls'[c].error = "none"
               /\ Len(users') = Len(users)
               /\ users'[calls[c].found].evaluation_credits =
                      users[calls[c].found].evaluation_credits
               /\ users'[calls[c].found].auth_user_id = calls[c].auth_user_id

AtMostOneUserPerAuthUserId ==
    \A i, j \in DOMAIN users : users[i].auth_user_id = users[j].auth_user_id => i = j

\* C23: find_or_create_user called with an auth_user_id that already has a
\* user returns that user, creates no second user and leaves its
\* evaluation_credits unchanged whatever the request carries; after any
\* sequence of calls there is at most one user per auth_user_id.
C23_FindOrCreateUser == []AtMostOneUserPerAuthUserId /\ [][ExistingUserKept]_vars

\* a call has returned the existing user of its auth_user_id although the
\* request carried other credits, and another user exists
C23_Witness ==
    \E c \in Callers :
        /\ calls[c].pc = "done" /\ calls[c].found # 0
        /\ calls[c].returned = calls[c].found
        /\ calls[c].evaluation_credits # users[calls[c].found].evaluation_credits
        /\ Len(users) = 2

\* ------------------------------------------------- storage-layer total claims
\* the stored listings, and the same rows with price_period NULL
ListingRows ==
    {Listing(l) : l \in listings}
        \cup {[Listing(l) EXCEPT !.price_period = "None"] : l \in listings}

\* the stay the selector call in slot t normalised prices for, 0 for none
NormalisedStay(t) ==
    IF SelectorReturned(t) /\ StayDuration(users[run[t].user_id]) # None
    THEN StayDuration(users[run[t].user_id])
    ELSE 0

\* C24: the total cost _get_candidate_listings computes in its storage-layer
\* expression equals Listing.calculate_total_cost_for_duration rounded to 2
\* decimals, for the same listing and duration, for every listing including
\* those whose price or price_period is unset.
C24_StorageTotalEqualsListingTotal ==
    \A t \in DOMAIN run :
        NormalisedStay(t) # 0 =>
            \A l \in ListingRows :
                ListingTotalCost(l, NormalisedStay(t)) =
                    RoundCents(CalculateTotalCostForDuration(l.price, l.price_period,
                                                             NormalisedStay(t)))

\* ------------------------------------------------------- pre-flight claims
\* slot t takes the step from the call of find_and_evaluate_listings to the
\* head of its scoring loop
EntersLoop(t) == run[t].pc \in {"idle", "done"} /\ run'[t].pc \in {"loop", "finish"}

\* the list the run keeps, against the list the candidate selector returns
\* for the call's user and max_evaluations
TrimmedToBudget(t) ==
    LET fetched == GetCandidateListings(run'[t].user_id, run'[t].limit)
        kept    == run'[t].candidates
        cap     == run'[t].max_cost
    IN  IF Len(fetched) * CostPerEvaluation > cap
        THEN /\ Len(kept) * CostPerEvaluation <= cap
             /\ (Len(kept) + 1) * CostPerEvaluation > cap
             /\ Len(kept) < Len(fetched)
             /\ kept = SubSeq(fetched, 1, Len(kept))
        ELSE kept = fetched

\* C25: when the estimated cost of scoring all fetched candidates exceeds
\* max_cost, find_and_evaluate_listings keeps the first
\* floor(max_cost / cost_per_evaluation) candidates, so the estimate for the
\* kept list is <= max_cost and the kept list is a prefix of the fetched
\* list; when the estimate fits, the list is not shortened.
C25_PreflightTrim == [][\A t \in DOMAIN run : EntersLoop(t) => TrimmedToBudget(t)]_vars

\* two candidates were fetched and a cap that pays for one kept the first
C25_Witness ==
    \E t \in DOMAIN run :
        /\ run[t].pc = "loop" /\ run[t].idx = 1
        /\ run[t].found = 2 /\ run[t].limit = DEFAULT_MAX_EVALUATIONS
        /\ run[t].max_cost = 200000
        /\ run[t].candidates = <<2>>

\* ------------------------------------------------------ scoring loop claims
\* slot t holds a find_and_evaluate_listings run, in its loop or past it
AgentRun(t) == run[t].pc \in {"loop", "finish"} \/ run[t].result.returned

\* the Evaluator calls the run in slot t has made: one per candidate passed
EvaluatorCalls(t) == run[t].idx - 1

\* the counters of a run stay within the number of candidates fetched, and
\* the rows it stored follow the order of its candidate list
LoopBounded(t) ==
    LET r == run[t]
    IN  /\ EvaluatorCalls(t) <= Len(r.candidates)
        /\ Len(r.candidates) <= r.found
        /\ r.found <= r.limit
        /\ r.completed + r.error_count = EvaluatorCalls(t)
        /\ r.completed + r.error_count <= r.found
        /\ r.completed = Len(r.stored)
        /\ \E pos \in [1..Len(r.stored) -> 1..EvaluatorCalls(t)] :
               /\ \A k \in 1..Len(r.stored) :
                      evals[r.stored[k]].listing_id = r.candidates[pos[k]]
               /\ \A k, m \in 1..Len(r.stored) : k < m => pos[k] < pos[m]

\* a step of the loop passes exactly one candidate, the next of the list, and
\* a row it stores is for that candidate
OneCallPerCandidate(t) ==
    (run[t].pc = "loop" /\ run'[t] # run[t]) =>
        /\ run'[t].candidates = run[t].candidates
        /\ run'[t].idx \in {run[t].idx, run[t].idx + 1}
        /\ run'[t].idx = run[t].idx => run'[t].pc = "finish"
        /\ Len(evals') > Len(evals) =>
               evals'[Len(evals')].listing_id = run[t].candidates[run[t].idx]

\* the number of candidates found is the length of the selector's answer
FoundIsFetched(t) ==
    EntersLoop(t) => run'[t].found = Len(GetCandidateListings(run'[t].user_id, run'[t].limit))

\* C26: one find_and_evaluate_listings run makes at most max_evaluations
\* Evaluator calls, at most one per fetched candidate, in the order of the
\* candidate list, and always terminates; candidate_listings_found is the
\* number of candidates fetched (<= max_evaluations) and
\* evaluations_completed + error_count never exceeds it.
C26_LoopBoundedAndTerminates ==
    /\ [](\A t \in DOMAIN run : AgentRun(t) => LoopBounded(t))
    /\ [][\A t \in DOMAIN run : OneCallPerCandidate(t) /\ FoundIsFetched(t)]_vars
    /\ \A t \in {"t1"} : (run[t].pc \in {"loop", "finish"}) ~> run[t].result.returned

\* a run over two candidates has returned with one evaluation completed
\* and one error
C26_Witness ==
    \E t \in DOMAIN run :
        /\ run[t].result.returned
        /\ run[t].found = 2 /\ run[t].limit = DEFAULT_MAX_EVALUATIONS
        /\ run[t].completed = 1 /\ run[t].error_count = 1
        /\ EvaluatorCalls(t) = 2

\* ------------------------------------------------ same-user concurrency claims
\* the listings the run in slot t has stored a row for
ScoredBy(t) == {evals[run[t].stored[k]].listing_id : k \in 1..Len(run[t].stored)}

\* exactly two tasks were submitted, both for one user, and both have
\* returned their result
BothTasksDone ==
    /\ submitted = 2
    /\ \A t \in Tasks : Succeeded(t)
    /\ \A t1, t2 \in Tasks : run[t1].user_id = run[t2].user_id

\* C27: under any interleaving of two evaluate_user_listings tasks for the
\* same user, no listing is scored twice, there is at most one row per
\* (user, listing), and the final evaluation_credits is the initial balance
\* minus the realized costs of both tasks and is not negative.
C27_SameUserTasksSerialise ==
    BothTasksDone =>
        /\ \A t1, t2 \in Tasks : t1 # t2 => ScoredBy(t1) \cap ScoredBy(t2) = {}
        /\ \A u \in DOMAIN users, l \in listings : Cardinality(RowsFor(u, l)) <= 1
        /\ \A u \in DOMAIN users :
               (\A t \in Tasks : run[t].user_id = u) =>
                   /\ users[u].evaluation_credits =
                          MIN_CREDIT_THRESHOLD
                              - SumSeq([k \in 1..Len(evals) |-> evals[k].cost_usd])
                   /\ users[u].evaluation_credits >= 0

\* ------------------------------------------------ billing of persisted rows
\* C28: in every run evaluations_completed is the number of rows the run
\* committed and total_cost is the summed cost_usd of exactly those rows,
\* so a candidate whose store step failed adds nothing to total_cost.
C28_ChargedOnlyForPersisted ==
    \A t \in DOMAIN run :
        run[t].pc \in {"loop", "finish", "done"} =>
            /\ run[t].completed = Len(run[t].stored)
            /\ run[t].total_cost = StoredCost(t)

\* ------------------------------------------------------- task row lifecycle
\* the status changes a Task row may make
TaskTransitions ==
    {<<"pending", "in_progress">>, <<"in_progress", "completed">>,
     <<"in_progress", "failed">>}

\* a step enqueues process_task only for a committed pending row, creates
\* rows as pending, and moves a status only along TaskTransitions
TaskStep ==
    /\ \A k \in 1..Len(tasks'.queue) :
           (\A j \in 1..Len(tasks.queue) : tasks.queue[j] # tasks'.queue[k]) =>
               /\ tasks'.queue[k] \in DOMAIN tasks.rows
               /\ tasks.rows[tasks'.queue[k]].status = "pending"
    /\ \A id \in DOMAIN tasks'.rows :
           IF id \in DOMAIN tasks.rows
           THEN \/ tasks'.rows[id].status = tasks.rows[id].status
                \/ <<tasks.rows[id].status, tasks'.rows[id].status>> \in TaskTransitions
           ELSE tasks'.rows[id].status = "pending"

\* completed and failed rows carry completed_at; failed is exactly a raised
\* handler, with error_message set
TaskEndsRecorded ==
    \A id \in DOMAIN tasks.rows :
        LET row == tasks.rows[id]
        IN  /\ row.status \in {"completed", "failed"} => row.completed_at # None
            /\ row.status = "failed" <=> id \in tasks.raised
            /\ row.status = "failed" => row.error_message # "None"

\* a completed row holds a result that reports no error
CompletedWithoutError ==
    \A id \in DOMAIN tasks.rows :
        tasks.rows[id].status = "completed" =>
            /\ tasks.rows[id].result.set
            /\ tasks.rows[id].result.error = "None"

\* C29: a Task row is committed pending before process_task is enqueued
\* for it; its status only moves pending -> in_progress -> completed or
\* failed, both terminal and both with completed_at; failed is reached
\* exactly when the handler raises, with error_message set; and a row is
\* completed only when its handler returned no error result.
C29_TaskLifecycle ==
    /\ [][TaskStep]_vars
    /\ []TaskEndsRecorded
    /\ []CompletedWithoutError

\* ------------------------------------------------- stored preference ranges
\* C30: after any sequence of update_user_preferences calls on a user that
\* starts with no preferences, a stored price range has min_price <=
\* max_price, a stored date pair has preferred_start_date before
\* preferred_end_date, and the stay duration is never negative.
C30_StoredRangesOrdered ==
    \A u \in DOMAIN users :
        LET usr == users[u]
        IN  /\ (usr.min_price # None /\ usr.max_price # None) =>
                   usr.min_price <= usr.max_price
            /\ (usr.preferred_start_date # None /\ usr.preferred_end_date # None) =>
                   usr.preferred_start_date < usr.preferred_end_date
            /\ StayDuration(usr) # None => StayDuration(usr) >= 0

\* both pairs are stored after two accepted updates, and a third request
\* that would have put the start after the stored end was refused
C30_Witness ==
    /\ PreferencesCalled
    /\ calc.result = "Failure"
    /\ calc.updates.preferred_start_date = Date(30)
    /\ calc.updates.preferred_end_date = None
    /\ LET usr == users[calc.user_id]
       IN  /\ usr.preference_version = 3
           /\ usr.min_price = 100 /\ usr.max_price = 175
           /\ usr.preferred_start_date = Date(10)
           /\ usr.preferred_end_date = Date(24)
           /\ StayDuration(usr) = 14

====
